---------------------------- MODULE Spec2Model ----------------------------
(***************************************************************************)
(* The WiredTiger sorted-index adapter of                                  *)
(* src/mongo/db/storage/wiredtiger/wiredtiger_index.cpp: the unique and    *)
(* the standard index over an ordered key/value table, the bulk builders   *)
(* and the index cursor.                                                   *)
(*                                                                         *)
(* A structured key (BSONObj with one field) is a record                   *)
(*   [v |-> the field's value, tb |-> its type bits, size |-> objsize()]   *)
(* with v = 0 for the empty object.  Engine keys and values are byte       *)
(* strings, modelled as sequences of naturals compared bytewise.           *)
(***************************************************************************)
EXTENDS Integers, Sequences, FiniteSets, TLC

(***************************************************************************)
(* Bounds of the model and program constants.                              *)
(***************************************************************************)
\* record ids are 1..MaxLoc
MaxLoc == 3

\* a bulk builder takes at most MaxAdds keys
MaxAdds == 2

\* the key-size limit of checkKeySize
TempKeyMaxSize == 1024

\* the field values of the structured keys fed to the index
KeyValues == {1, 2}

Locs == 1..MaxLoc

\* Structured keys: odd values have two spellings that compare equal and
\* differ in their type bits (an int and a double); one oversized spelling
\* of value 1 exercises checkKeySize.
\* unindex and dupKeyCheck read neither the size nor the type bits of a key
PlainKeys == { [v |-> v, tb |-> 0, size |-> 16] : v \in KeyValues }

SmallKeys ==
    { [v |-> v, tb |-> tb, size |-> 16] : v \in KeyValues, tb \in {0, 1} }
      \ { k \in [v : KeyValues, tb : {0, 1}, size : {16}] : k.v % 2 = 0 /\ k.tb = 1 }

BigKeys == { [v |-> 1, tb |-> 0, size |-> TempKeyMaxSize] }

Keys == SmallKeys \cup BigKeys

EmptyKey == [v |-> 0, tb |-> 0, size |-> 5]

(***************************************************************************)
(* The order-preserving key codec (KeyString).                             *)
(***************************************************************************)
\* the byte a discriminator appends: kLess < kEnd < kGreater
DiscByte(d) ==
    CASE d = "kExclusiveBefore" -> <<1>>
      [] d = "kExclusiveAfter"  -> <<254>>
      [] d = "kInclusive"       -> <<>>

\* KeyString(obj, ordering, discriminator): the value's bytes (none for the
\* empty object), the discriminator byte if any, kEnd.
KeyString(key, d) ==
    (IF key.v = 0 THEN <<>> ELSE <<10 + key.v>>) \o DiscByte(d) \o <<4>>

\* KeyString(obj, ordering, loc): the inclusive key followed by the record id
KeyStringWithLoc(key, loc) == KeyString(key, "kInclusive") \o <<loc>>

\* KeyString::decodeRecordIdAtEnd
DecodeRecordIdAtEnd(ks) == ks[Len(ks)]

\* KeyString::TypeBits::fromBuffer / resetFromBuffer: an empty buffer reads
\* as all-zero type bits
TypeBitsFromBuffer(br) ==
    IF br = <<>> THEN [bits |-> 0, rest |-> <<>>]
    ELSE [bits |-> Head(br), rest |-> Tail(br)]

\* KeyString::compare: bytewise, a proper prefix is smaller
RECURSIVE KSCompare(_, _)
KSCompare(a, b) ==
    IF a = <<>> /\ b = <<>> THEN 0
    ELSE IF a = <<>> THEN -1
    ELSE IF b = <<>> THEN 1
    ELSE IF Head(a) < Head(b) THEN -1
    ELSE IF Head(a) > Head(b) THEN 1
    ELSE KSCompare(Tail(a), Tail(b))

(***************************************************************************)
(* The ordered key/value engine: a table is a function from the keys it    *)
(* holds to their values.                                                  *)
(***************************************************************************)
EmptyTable == [k \in {} |-> <<>>]

\* cursor insert with overwrite=false
WtInsert(t, k, val) ==
    IF k \in DOMAIN t THEN [ret |-> "WT_DUPLICATE_KEY", table |-> t]
    ELSE [ret |-> "OK", table |-> [x \in DOMAIN t \cup {k} |-> IF x = k THEN val ELSE t[x]]]

\* cursor update of the row the cursor is positioned on
WtUpdate(t, k, val) ==
    [ret |-> "OK", table |-> [x \in DOMAIN t \cup {k} |-> IF x = k THEN val ELSE t[x]]]

\* cursor remove
WtRemove(t, k) ==
    IF k \in DOMAIN t THEN [ret |-> "OK", table |-> [x \in DOMAIN t \ {k} |-> t[x]]]
    ELSE [ret |-> "WT_NOTFOUND", table |-> t]

\* wtRCToStatus
wtRCToStatus(ret) == ret

(***************************************************************************)
(* Index operations.                                                       *)
(***************************************************************************)
\* Fault: checkKeySize refusing only keys over the limit.
checkKeySizeOverOnly(key) ==
    IF key.size > TempKeyMaxSize THEN "KeyTooLong" ELSE "OK"

checkKeySize(key) ==
    IF key.size >= TempKeyMaxSize THEN "KeyTooLong" ELSE "OK"

\* Fault: the loop without its "already in index" return.
RECURSIVE UniqueInsertLoopNoFound(_, _, _, _, _)
UniqueInsertLoopNoFound(br, value, insertedLoc, loc, typeBits) ==
    IF br = <<>> THEN [found |-> FALSE, value |-> value, insertedLoc |-> insertedLoc]
    ELSE LET locInIndex == Head(br)
             old == TypeBitsFromBuffer(Tail(br))
             here == ~insertedLoc /\ loc < locInIndex
         IN UniqueInsertLoopNoFound(old.rest,
                                    (IF here THEN value \o <<loc, typeBits>> ELSE value)
                                       \o <<locInIndex, old.bits>>,
                                    insertedLoc \/ here, loc, typeBits)

\* Fault: the loop never puts loc before a larger record id, so that the
\* caller appends it.
RECURSIVE UniqueInsertLoopAppend(_, _, _, _, _)
UniqueInsertLoopAppend(br, value, insertedLoc, loc, typeBits) ==
    IF br = <<>> THEN [found |-> FALSE, value |-> value, insertedLoc |-> FALSE]
    ELSE LET locInIndex == Head(br)
             old == TypeBitsFromBuffer(Tail(br))
         IN IF loc = locInIndex
            THEN [found |-> TRUE, value |-> value, insertedLoc |-> FALSE]
            ELSE UniqueInsertLoopAppend(old.rest, value \o <<locInIndex, old.bits>>,
                                        FALSE, loc, typeBits)

\* The loop of WiredTigerIndexUnique::_insert over the old value: copies the
\* old list to the new value, putting (loc, typeBits) before the first larger
\* record id; stops with found = TRUE when loc is already in the list.
RECURSIVE UniqueInsertLoop(_, _, _, _, _)
UniqueInsertLoop(br, value, insertedLoc, loc, typeBits) ==
    IF br = <<>> THEN [found |-> FALSE, value |-> value, insertedLoc |-> insertedLoc]
    ELSE LET locInIndex == Head(br)
             old == TypeBitsFromBuffer(Tail(br))
             here == ~insertedLoc /\ loc < locInIndex
         IN IF loc = locInIndex
            THEN [found |-> TRUE, value |-> value, insertedLoc |-> insertedLoc]
            ELSE UniqueInsertLoop(old.rest,
                                  (IF here THEN value \o <<loc, typeBits>> ELSE value)
                                     \o <<locInIndex, old.bits>>,
                                  insertedLoc \/ here, loc, typeBits)

\* Fault: _insert without its "if (!dupsAllowed) return dupKeyError(key)".
UniqueInsertNoDupError(t, key, loc, dupsAllowed) ==
    LET data == KeyString(key, "kInclusive")
        value == IF key.tb # 0 THEN <<loc, key.tb>> ELSE <<loc>>
        ins == WtInsert(t, data, value)
    IN IF ins.ret # "WT_DUPLICATE_KEY"
       THEN [status |-> wtRCToStatus(ins.ret), table |-> ins.table]
       ELSE LET r == UniqueInsertLoop(t[data], <<>>, FALSE, loc, key.tb)
            IN IF r.found THEN [status |-> "OK", table |-> t]
               ELSE LET newValue == IF r.insertedLoc THEN r.value
                                    ELSE r.value \o <<loc, key.tb>>
                        upd == WtUpdate(t, data, newValue)
                    IN [status |-> wtRCToStatus(upd.ret), table |-> upd.table]

\* WiredTigerIndexUnique::_insert
UniqueInsert(t, key, loc, dupsAllowed) ==
    LET data == KeyString(key, "kInclusive")
        value == IF key.tb # 0 THEN <<loc, key.tb>> ELSE <<loc>>
        ins == WtInsert(t, data, value)
    IN IF ins.ret # "WT_DUPLICATE_KEY"
       THEN [status |-> wtRCToStatus(ins.ret), table |-> ins.table]
       ELSE LET r == UniqueInsertLoop(t[data], <<>>, FALSE, loc, key.tb)
            IN IF r.found THEN [status |-> "OK", table |-> t]
               ELSE IF ~dupsAllowed THEN [status |-> "DuplicateKey", table |-> t]
               ELSE LET newValue == IF r.insertedLoc THEN r.value
                                    ELSE r.value \o <<loc, key.tb>>
                        upd == WtUpdate(t, data, newValue)
                    IN [status |-> wtRCToStatus(upd.ret), table |-> upd.table]

\* WiredTigerIndexStandard::_insert
StandardInsert(t, key, loc) ==
    LET data == KeyStringWithLoc(key, loc)
        value == IF key.tb = 0 THEN <<>> ELSE <<key.tb>>
        ins == WtInsert(t, data, value)
    IN IF ins.ret # "WT_DUPLICATE_KEY"
       THEN [status |-> wtRCToStatus(ins.ret), table |-> ins.table]
       ELSE [status |-> "OK", table |-> t]

\* Fault: the loop keeping the other records without their type bits.
RECURSIVE UniqueUnindexLoopZeroBits(_, _, _, _)
UniqueUnindexLoopZeroBits(br, records, foundLoc, loc) ==
    IF br = <<>> THEN [whole |-> FALSE, records |-> records, foundLoc |-> foundLoc]
    ELSE LET locInIndex == Head(br)
             old == TypeBitsFromBuffer(Tail(br))
         IN IF loc = locInIndex
            THEN IF records = <<>> /\ old.rest = <<>>
                 THEN [whole |-> TRUE, records |-> records, foundLoc |-> TRUE]
                 ELSE UniqueUnindexLoopZeroBits(old.rest, records, TRUE, loc)
            ELSE UniqueUnindexLoopZeroBits(old.rest, Append(records, <<locInIndex, 0>>),
                                           foundLoc, loc)

\* Fault: the loop without the removal of a row whose only record is loc.
RECURSIVE UniqueUnindexLoopKeepRow(_, _, _, _)
UniqueUnindexLoopKeepRow(br, records, foundLoc, loc) ==
    IF br = <<>> THEN [whole |-> FALSE, records |-> records, foundLoc |-> foundLoc]
    ELSE LET locInIndex == Head(br)
             old == TypeBitsFromBuffer(Tail(br))
         IN IF loc = locInIndex
            THEN UniqueUnindexLoopKeepRow(old.rest, records, TRUE, loc)
            ELSE UniqueUnindexLoopKeepRow(old.rest,
                                          Append(records, <<locInIndex, old.bits>>),
                                          foundLoc, loc)

\* The loop of WiredTigerIndexUnique::_unindex over the old value: the records
\* other than loc; whole = TRUE when loc is the only record of the row.
RECURSIVE UniqueUnindexLoop(_, _, _, _)
UniqueUnindexLoop(br, records, foundLoc, loc) ==
    IF br = <<>> THEN [whole |-> FALSE, records |-> records, foundLoc |-> foundLoc]
    ELSE LET locInIndex == Head(br)
             old == TypeBitsFromBuffer(Tail(br))
         IN IF loc = locInIndex
            THEN IF records = <<>> /\ old.rest = <<>>
                 THEN [whole |-> TRUE, records |-> records, foundLoc |-> TRUE]
                 ELSE UniqueUnindexLoop(old.rest, records, TRUE, loc)
            ELSE UniqueUnindexLoop(old.rest, Append(records, <<locInIndex, old.bits>>),
                                   foundLoc, loc)

\* Fault: the value of a record list with the type bits always written.
RECURSIVE RecordsValueNoElide(_, _)
RecordsValueNoElide(records, n) ==
    IF records = <<>> THEN <<>>
    ELSE Head(records) \o RecordsValueNoElide(Tail(records), n)

\* Fault: all-zero type bits left out of every record of the list.
RECURSIVE RecordsValueElideAll(_, _)
RecordsValueElideAll(records, n) ==
    IF records = <<>> THEN <<>>
    ELSE LET r == Head(records)
         IN (IF r[2] # 0 THEN <<r[1], r[2]>> ELSE <<r[1]>>)
               \o RecordsValueElideAll(Tail(records), n)

\* The value written for a list of (record id, type bits): all-zero type bits
\* are left out when the list has one record.
RECURSIVE RecordsValue(_, _)
RecordsValue(records, n) ==
    IF records = <<>> THEN <<>>
    ELSE LET r == Head(records)
         IN (IF ~(r[2] = 0 /\ n = 1) THEN <<r[1], r[2]>> ELSE <<r[1]>>)
               \o RecordsValue(Tail(records), n)

\* WiredTigerIndexUnique::_unindex
UniqueUnindex(t, key, loc, dupsAllowed) ==
    LET data == KeyString(key, "kInclusive")
    IN IF ~dupsAllowed THEN WtRemove(t, data).table
       ELSE IF data \notin DOMAIN t THEN t
       ELSE LET r == UniqueUnindexLoop(t[data], <<>>, FALSE, loc)
            IN IF r.whole THEN WtRemove(t, data).table
               ELSE IF ~r.foundLoc THEN t
               ELSE WtUpdate(t, data, RecordsValue(r.records, Len(r.records))).table

\* WiredTigerIndexStandard::_unindex
StandardUnindex(t, key, loc) == WtRemove(t, KeyStringWithLoc(key, loc)).table

\* Fault: isDup looking at the first record of the value only.
IsDupLoopFirstOnly(br, loc) == IF br = <<>> THEN TRUE ELSE Head(br) # loc

\* The loop of WiredTigerIndex::isDup: TRUE iff no record of the value is loc
RECURSIVE IsDupLoop(_, _)
IsDupLoop(br, loc) ==
    IF br = <<>> THEN TRUE
    ELSE IF Head(br) = loc THEN FALSE
    ELSE IsDupLoop(TypeBitsFromBuffer(Tail(br)).rest, loc)

\* WiredTigerIndex::isDup
isDup(t, key, loc) ==
    LET data == KeyString(key, "kInclusive")
    IN IF data \notin DOMAIN t THEN FALSE ELSE IsDupLoop(t[data], loc)

(***************************************************************************)
(* Reading a unique row back.                                              *)
(***************************************************************************)
\* the (record id, type bits) pairs of a unique row's value
RECURSIVE ParseList(_)
ParseList(br) ==
    IF br = <<>> THEN <<>>
    ELSE LET old == TypeBitsFromBuffer(Tail(br))
         IN <<<<Head(br), old.bits>>>> \o ParseList(old.rest)

RowLocs(t, v) ==
    LET data == KeyString([v |-> v, tb |-> 0, size |-> 16], "kInclusive")
    IN IF data \in DOMAIN t THEN [i \in 1..Len(ParseList(t[data])) |-> ParseList(t[data])[i][1]]
       ELSE <<>>


(***************************************************************************)
(* State.                                                                  *)
(***************************************************************************)
VARIABLES
    unique,     \* the index flavour: TRUE for WiredTigerIndexUnique
    table,      \* the engine table of the index (committed state)
    op,         \* the last index operation: its name, arguments and Status
    bulk,       \* the bulk builder: state, _dupsAllowed, _key, _records
    hist,       \* per key value: the record ids inserted there (SpecInserts)
    fedSorted,  \* every key a bulk builder took came in (key, record id) order
    aborted,    \* an invariant or fassert of the code has failed
    txns,       \* the transactions of SpecTxn: snapshot, own view, writes, result
    cur,        \* the index cursor of SpecCursor: its members and its last call
    scan,       \* the entries a cursor returned since its seek from the start
    savedNext,  \* at savePositioned: the entry next() would have returned
    undo,       \* SpecUndo: the table before the last insert, and what followed
    fed,        \* SpecBuild: per key value, the record ids a builder took, in order
    ident,      \* SpecOpen: the table of the index, its metadata, and the index object
    fault,      \* SpecFault: the last engine call that failed, and what became of it
    sess        \* SpecSessions: the sessions and the cursor of a bulk builder

\* what the index operations of one thread leave alone
nonIndexVars == <<txns, cur, scan, savedNext, undo, fed, ident, fault, sess>>

\* what the cursor and the work beside it leave alone
nonCursorVars == <<unique, op, bulk, hist, fedSorted, txns, undo, fed, ident, fault, sess>>

vars == <<unique, table, op, bulk, hist, fedSorted, aborted, txns, cur, scan, savedNext, undo,
         fed, ident, fault, sess>>

Txns == {1, 2}

NoTxn == [state |-> "idle", snapshot |-> <<>>, view |-> <<>>, written |-> {}, stale |-> {},
          key |-> EmptyKey, loc |-> 0, dups |-> TRUE, status |-> "none"]

NoOp == [name |-> "none", key |-> EmptyKey, loc |-> 0, dups |-> TRUE, status |-> "none"]

NoBulk == [state |-> "none", dupsAllowed |-> TRUE, key |-> EmptyKey, records |-> <<>>,
           adds |-> 0]

NoHist == [v \in KeyValues |-> {}]

\* the values of dupsAllowed a flavour accepts: the standard index has
\* invariant(dupsAllowed)
DupsFor(u) == IF u THEN BOOLEAN ELSE {TRUE}

\* the engine key of the unique row of key value v
RowKey(v) == KeyString([v |-> v, tb |-> 0, size |-> 16], "kInclusive")

\* what seek and next return at the end of the index
NoEntry == [v |-> 0, tb |-> 0, loc |-> 0]

\* no entry foretold
NoPrediction == [v |-> -1, tb |-> 0, loc |-> 0]

NoCall == [name |-> "none", key |-> EmptyKey, inclusive |-> TRUE]

\* no cursor yet; the members are those of a newly constructed cursor
NoCursor ==
    [state |-> "none", forward |-> TRUE, pos |-> <<>>, key |-> <<>>, typeBits |-> 0,
     loc |-> 0, eof |-> FALSE, cursorAtEof |-> FALSE, lastMoveWasRestore |-> FALSE,
     endPosition |-> <<>>, endArg |-> NoCall, call |-> NoCall,
     cursor |-> "none", txn |-> "none"]

NoScan == [valid |-> FALSE, seq |-> <<>>]

\* no bulk builder yet: no private session taken from the session cache, no
\* cursor of the builder, no cursor open in the caller's session; log is the
\* calls the builder has made on sessions and cursors
NoSessions == [session |-> "none", released |-> 0, cursor |-> "none", outer |-> 0,
               closed |-> 0, log |-> <<>>]

\* nothing taken by a builder
NoFed == [v \in KeyValues |-> <<>>]

\* static const int kMinimumIndexVersion
kMinimumIndexVersion == 6

\* static const int kCurrentIndexVersion: new indexes use this
kCurrentIndexVersion == 6

\* static const int kMaximumIndexVersion
kMaximumIndexVersion == 6

\* a formatVersion tag of a table's metadata; a table may carry none
Tag(version) == [present |-> TRUE, version |-> version]

NoTag == [present |-> FALSE, version |-> 0]

\* no table yet, and no index object
NoIdent == [state |-> "none", status |-> "none", config |-> <<>>, tag |-> NoTag,
            origin |-> "none", options |-> <<>>]

\* an index object constructed over a table the adapter created; the object
\* keeps nothing of the config string
OpenIdent == [NoIdent EXCEPT !.state = "open", !.status = "OK",
                             !.tag = Tag(kCurrentIndexVersion), !.origin = "adapter"]

\* no engine call has failed
NoFault == [operation |-> "none", call |-> "none", flag |-> FALSE, ret |-> "0",
            outcome |-> "ok"]

\* no insert to undo
NoUndo == [state |-> "none", pre |-> <<>>, added |-> FALSE]

(***************************************************************************)
(* WiredTigerIndex::insert, unindex and dupKeyCheck.                       *)
(***************************************************************************)
\* WiredTigerIndex::insert followed by the flavour's _insert
IndexInsert(t, u, key, loc, dupsAllowed) ==
    IF checkKeySize(key) # "OK" THEN [status |-> checkKeySize(key), table |-> t]
    ELSE IF u THEN UniqueInsert(t, key, loc, dupsAllowed)
    ELSE StandardInsert(t, key, loc)

\* WiredTigerIndex::unindex followed by the flavour's _unindex
IndexUnindex(t, u, key, loc, dupsAllowed) ==
    IF u THEN UniqueUnindex(t, key, loc, dupsAllowed) ELSE StandardUnindex(t, key, loc)

\* WiredTigerIndex::dupKeyCheck
dupKeyCheck(t, key, loc) == IF isDup(t, key, loc) THEN "DuplicateKey" ELSE "OK"

InsertCall(key, loc, dupsAllowed) ==
    /\ ~aborted /\ bulk.state # "open"
    /\ LET r == IndexInsert(table, unique, key, loc, dupsAllowed)
       IN /\ table' = r.table
          /\ op' = [name |-> "insert", key |-> key, loc |-> loc, dups |-> dupsAllowed,
                    status |-> r.status]
    /\ UNCHANGED <<unique, bulk, fedSorted, aborted, nonIndexVars>>

Insert(key, loc, dupsAllowed) == InsertCall(key, loc, dupsAllowed) /\ UNCHANGED hist

Unindex(key, loc, dupsAllowed) ==
    /\ ~aborted /\ bulk.state # "open"
    /\ LET t == IndexUnindex(table, unique, key, loc, dupsAllowed)
       IN table' = t
    /\ op' = [name |-> "unindex", key |-> key, loc |-> loc, dups |-> dupsAllowed,
              status |-> "OK"]
    /\ UNCHANGED <<unique, bulk, hist, fedSorted, aborted, nonIndexVars>>

DupKeyCheck(key, loc) ==
    /\ ~aborted /\ bulk.state # "open" /\ unique
    /\ op' = [name |-> "dupKeyCheck", key |-> key, loc |-> loc, dups |-> TRUE,
              status |-> dupKeyCheck(table, key, loc)]
    /\ UNCHANGED <<unique, table, bulk, hist, fedSorted, aborted, nonIndexVars>>


(***************************************************************************)
(* The bulk builders.  bulk.adds counts the keys taken.                    *)
(***************************************************************************)
\* BSONObj::woCompare of two structured keys: type bits do not count
woCompare(a, b) == IF a.v < b.v THEN -1 ELSE IF a.v > b.v THEN 1 ELSE 0

\* insert through a bulk cursor: the key must follow every key of the table
WtBulkInsert(t, k, val) ==
    IF \E x \in DOMAIN t : KSCompare(x, k) >= 0 THEN [ret |-> "EINVAL", table |-> t]
    ELSE [ret |-> "OK", table |-> [x \in DOMAIN t \cup {k} |-> IF x = k THEN val ELSE t[x]]]

\* Fault: doInsert writing the first pending record only.
doInsertFirstOnly(t, b) ==
    IF b.records = <<>> THEN [ok |-> FALSE, table |-> t, records |-> b.records]
    ELSE LET ins == WtBulkInsert(t, KeyString(b.key, "kInclusive"),
                                 RecordsValue(<<Head(b.records)>>, 1))
         IN [ok |-> ins.ret = "OK", table |-> ins.table, records |-> <<>>]

\* UniqueBulkBuilder::doInsert: the pending records become the row of _key
doInsert(t, b) ==
    IF b.records = <<>> THEN [ok |-> FALSE, table |-> t, records |-> b.records]
    ELSE LET ins == WtBulkInsert(t, KeyString(b.key, "kInclusive"),
                                 RecordsValue(b.records, Len(b.records)))
         IN [ok |-> ins.ret = "OK", table |-> ins.table, records |-> <<>>]

\* Fault: addKey checking the key size after it has written the pending row.
UniqueAddKeyLateCheck(t, b, newKey, loc) ==
    LET cmp == woCompare(newKey, b.key)
        flush == cmp # 0 /\ b.key # EmptyKey
        ins == IF flush /\ cmp > 0 THEN doInsert(t, b)
               ELSE [ok |-> TRUE, table |-> t, records |-> b.records]
        taken == [b EXCEPT !.key = newKey,
                           !.records = Append(ins.records, <<loc, newKey.tb>>),
                           !.adds = @ + 1]
    IN IF cmp # 0 /\ ((flush /\ ~(cmp > 0)) \/ ~ins.ok \/ ins.records # <<>>)
       THEN [status |-> "none", table |-> ins.table, bulk |-> b, fatal |-> TRUE]
       ELSE IF checkKeySize(newKey) # "OK"
       THEN [status |-> checkKeySize(newKey), table |-> ins.table,
             bulk |-> [b EXCEPT !.records = ins.records], fatal |-> FALSE]
       ELSE IF cmp = 0 /\ ~b.dupsAllowed
       THEN [status |-> "DuplicateKey", table |-> t, bulk |-> b, fatal |-> FALSE]
       ELSE [status |-> "OK", table |-> ins.table, bulk |-> taken, fatal |-> FALSE]

\* Fault: addKey without its "if (!_dupsAllowed) return dupKeyError(newKey)".
UniqueAddKeyNoDupError(t, b, newKey, loc) ==
    LET cmp == woCompare(newKey, b.key)
        flush == cmp # 0 /\ b.key # EmptyKey
        ins == IF flush /\ cmp > 0 THEN doInsert(t, b)
               ELSE [ok |-> TRUE, table |-> t, records |-> b.records]
        taken == [b EXCEPT !.key = newKey,
                           !.records = Append(ins.records, <<loc, newKey.tb>>),
                           !.adds = @ + 1]
    IN IF checkKeySize(newKey) # "OK"
       THEN [status |-> checkKeySize(newKey), table |-> t, bulk |-> b, fatal |-> FALSE]
       ELSE IF cmp # 0 /\ ((flush /\ ~(cmp > 0)) \/ ~ins.ok \/ ins.records # <<>>)
       THEN [status |-> "none", table |-> ins.table, bulk |-> b, fatal |-> TRUE]
       ELSE [status |-> "OK", table |-> ins.table, bulk |-> taken, fatal |-> FALSE]

\* Fault: addKey without its "invariant(cmp > 0)".
UniqueAddKeyNoOrderCheck(t, b, newKey, loc) ==
    LET cmp == woCompare(newKey, b.key)
        flush == cmp # 0 /\ b.key # EmptyKey
        ins == IF flush THEN doInsert(t, b)
               ELSE [ok |-> TRUE, table |-> t, records |-> b.records]
        taken == [b EXCEPT !.key = newKey,
                           !.records = Append(ins.records, <<loc, newKey.tb>>),
                           !.adds = @ + 1]
    IN IF checkKeySize(newKey) # "OK"
       THEN [status |-> checkKeySize(newKey), table |-> t, bulk |-> b, fatal |-> FALSE]
       ELSE IF cmp # 0 /\ (~ins.ok \/ ins.records # <<>>)
       THEN [status |-> "none", table |-> ins.table, bulk |-> b, fatal |-> TRUE]
       ELSE IF cmp = 0 /\ ~b.dupsAllowed
       THEN [status |-> "DuplicateKey", table |-> t, bulk |-> b, fatal |-> FALSE]
       ELSE [status |-> "OK", table |-> ins.table, bulk |-> taken, fatal |-> FALSE]

\* UniqueBulkBuilder::addKey
UniqueAddKey(t, b, newKey, loc) ==
    LET cmp == woCompare(newKey, b.key)
        flush == cmp # 0 /\ b.key # EmptyKey
        ins == IF flush /\ cmp > 0 THEN doInsert(t, b)
               ELSE [ok |-> TRUE, table |-> t, records |-> b.records]
        taken == [b EXCEPT !.key = newKey,
                           !.records = Append(ins.records, <<loc, newKey.tb>>),
                           !.adds = @ + 1]
    IN IF checkKeySize(newKey) # "OK"
       THEN [status |-> checkKeySize(newKey), table |-> t, bulk |-> b, fatal |-> FALSE]
       ELSE IF cmp # 0 /\ ((flush /\ ~(cmp > 0)) \/ ~ins.ok \/ ins.records # <<>>)
       THEN [status |-> "none", table |-> ins.table, bulk |-> b, fatal |-> TRUE]
       ELSE IF cmp = 0 /\ ~b.dupsAllowed
       THEN [status |-> "DuplicateKey", table |-> t, bulk |-> b, fatal |-> FALSE]
       ELSE [status |-> "OK", table |-> ins.table, bulk |-> taken, fatal |-> FALSE]

\* StandardBulkBuilder::addKey
StandardAddKey(t, b, key, loc) ==
    LET ins == WtBulkInsert(t, KeyStringWithLoc(key, loc),
                            IF key.tb = 0 THEN <<>> ELSE <<key.tb>>)
    IN IF checkKeySize(key) # "OK"
       THEN [status |-> checkKeySize(key), table |-> t, bulk |-> b, fatal |-> FALSE]
       ELSE IF ins.ret # "OK"
       THEN [status |-> "none", table |-> t, bulk |-> b, fatal |-> TRUE]
       ELSE [status |-> "OK", table |-> ins.table,
             bulk |-> [b EXCEPT !.key = key, !.adds = @ + 1], fatal |-> FALSE]

\* the sorter's order among the record ids of one key
FeedSorted(key, loc) ==
    (unique /\ bulk.dupsAllowed /\ woCompare(key, bulk.key) = 0 /\ bulk.records # <<>>)
        => loc > bulk.records[Len(bulk.records)][1]

\* getBulkBuilder: the bulk cursor is opened on the empty table
GetBulkBuilder(dupsAllowed) ==
    /\ ~aborted /\ bulk.state = "none" /\ table = EmptyTable
    /\ bulk' = [NoBulk EXCEPT !.state = "open", !.dupsAllowed = dupsAllowed]
    /\ op' = [NoOp EXCEPT !.name = "getBulkBuilder", !.dups = dupsAllowed]
    /\ UNCHANGED <<unique, table, hist, fedSorted, aborted, nonIndexVars>>

AddKey(key, loc) ==
    /\ ~aborted /\ bulk.state = "open" /\ bulk.adds < MaxAdds
    /\ LET r == IF unique THEN UniqueAddKey(table, bulk, key, loc)
                ELSE StandardAddKey(table, bulk, key, loc)
       IN /\ table' = r.table
          /\ bulk' = r.bulk
          /\ aborted' = r.fatal
          /\ op' = [name |-> "addKey", key |-> key, loc |-> loc, dups |-> bulk.dupsAllowed,
                    status |-> r.status]
          /\ fedSorted' = (fedSorted /\ (r.status = "OK" => FeedSorted(key, loc)))
    /\ UNCHANGED <<unique, hist, nonIndexVars>>

\* UniqueBulkBuilder::commit and StandardBulkBuilder::commit, and the builder's
\* destruction
Commit ==
    /\ ~aborted /\ bulk.state = "open"
    /\ LET ins == IF unique /\ bulk.records # <<>> THEN doInsert(table, bulk)
                  ELSE [ok |-> TRUE, table |-> table, records |-> bulk.records]
       IN /\ table' = ins.table
          /\ bulk' = NoBulk
          /\ aborted' = ~ins.ok
    /\ op' = [NoOp EXCEPT !.name = "commit", !.status = "OK"]
    /\ UNCHANGED <<unique, hist, fedSorted, nonIndexVars>>

(***************************************************************************)
(* The index alone: one thread inserting, unindexing, checking and bulk    *)
(* building.  The index build feeds a bulk builder from its sorter, in     *)
(* ascending (key, record id) order; SpecFeed lifts that for the record    *)
(* ids of one key.                                                         *)
(***************************************************************************)
Init ==
    /\ unique \in BOOLEAN
    /\ table = EmptyTable
    /\ op = NoOp
    /\ bulk = NoBulk
    /\ hist = NoHist
    /\ fedSorted = TRUE
    /\ aborted = FALSE
    /\ txns = [T \in Txns |-> NoTxn]
    /\ cur = NoCursor
    /\ scan = NoScan
    /\ savedNext = NoPrediction
    /\ undo = NoUndo
    /\ fed = NoFed
    /\ ident = OpenIdent
    /\ fault = NoFault
    /\ sess = NoSessions

Next ==
    \/ \E key \in Keys, loc \in Locs, d \in DupsFor(unique) : Insert(key, loc, d)
    \/ \E key \in PlainKeys, loc \in Locs, d \in DupsFor(unique) : Unindex(key, loc, d)
    \/ \E key \in PlainKeys, loc \in Locs : DupKeyCheck(key, loc)
    \/ \E d \in DupsFor(unique) : GetBulkBuilder(d)
    \/ \E key \in Keys, loc \in Locs : FeedSorted(key, loc) /\ AddKey(key, loc)
    \/ Commit

Spec == Init /\ [][Next]_vars


(***************************************************************************)
(* Inserts alone, with dupsAllowed, into a unique index: hist collects,    *)
(* per key value, the record ids whose insert returned OK.                 *)
(***************************************************************************)
InsertLogged(key, loc) ==
    /\ InsertCall(key, loc, TRUE)
    /\ hist' = IF op'.status = "OK" THEN [hist EXCEPT ![key.v] = @ \cup {loc}] ELSE hist

InitInserts == Init /\ unique

NextInserts == \E key \in Keys, loc \in Locs : InsertLogged(key, loc)

SpecInserts == InitInserts /\ [][NextInserts]_vars

(***************************************************************************)
(* The index with a bulk builder fed record ids in any order.              *)
(***************************************************************************)
NextFeed ==
    \/ \E key \in PlainKeys, loc \in Locs, d \in BOOLEAN : Insert(key, loc, d)
    \/ \E key \in PlainKeys, loc \in Locs, d \in BOOLEAN : Unindex(key, loc, d)
    \/ \E d \in BOOLEAN : GetBulkBuilder(d)
    \/ \E key \in PlainKeys, loc \in Locs : AddKey(key, loc)
    \/ Commit

SpecFeed == InitInserts /\ [][NextFeed]_vars

(***************************************************************************)
(* Two transactions inserting into a unique index.  The engine gives each  *)
(* transaction a snapshot of the committed table and its own writes on     *)
(* top, and fails a write of a row that another running transaction has    *)
(* written, or that was committed after the snapshot was taken, with a     *)
(* write conflict.  _insert reads only through the transaction's view and  *)
(* writes one row, so that its engine calls are taken as one step.         *)
(***************************************************************************)
\* the engine's write-conflict check of transaction T writing row k
TxnConflict(T, k) ==
    \/ k \in txns[T].stale
    \/ \E U \in Txns \ {T} : txns[U].state \in {"active", "failed"} /\ k \in txns[U].written

TxnBegin(T) ==
    /\ txns[T].state = "idle"
    /\ txns' = [txns EXCEPT ![T] = [NoTxn EXCEPT !.state = "active", !.snapshot = table,
                                                 !.view = table]]
    /\ UNCHANGED <<unique, table, op, bulk, hist, fedSorted, aborted, cur, scan, savedNext, undo, fed, ident, fault, sess>>

\* Fault: insert going on after the engine's write conflict as if the update had
\* been taken.
TxnInsertNoConflict(T, key, loc, dupsAllowed) ==
    /\ txns[T].state = "active" /\ txns[T].status = "none"
    /\ LET r == IndexInsert(txns[T].view, unique, key, loc, dupsAllowed)
           wrote == r.table # txns[T].view
       IN txns' = [txns EXCEPT ![T] =
                     [@ EXCEPT !.key = key, !.loc = loc, !.dups = dupsAllowed,
                               !.status = r.status,
                               !.view = r.table,
                               !.written = IF wrote THEN @ \cup {RowKey(key.v)} ELSE @]]
    /\ UNCHANGED <<unique, table, op, bulk, hist, fedSorted, aborted, cur, scan, savedNext, undo, fed, ident, fault, sess>>

\* WiredTigerIndex::insert in transaction T; a write conflict is thrown to
\* the caller, whose transaction can then only be rolled back
TxnInsert(T, key, loc, dupsAllowed) ==
    /\ txns[T].state = "active" /\ txns[T].status = "none"
    /\ LET r == IndexInsert(txns[T].view, unique, key, loc, dupsAllowed)
           wrote == r.table # txns[T].view
           conflict == wrote /\ TxnConflict(T, RowKey(key.v))
       IN txns' = [txns EXCEPT ![T] =
                     [@ EXCEPT !.key = key, !.loc = loc, !.dups = dupsAllowed,
                               !.status = IF conflict THEN "WriteConflict" ELSE r.status,
                               !.state = IF conflict THEN "failed" ELSE "active",
                               !.view = IF conflict THEN @ ELSE r.table,
                               !.written = IF wrote /\ ~conflict
                                           THEN @ \cup {RowKey(key.v)} ELSE @]]
    /\ UNCHANGED <<unique, table, op, bulk, hist, fedSorted, aborted, cur, scan, savedNext, undo, fed, ident, fault, sess>>

TxnCommit(T) ==
    /\ txns[T].state = "active"
    /\ table' = [k \in (DOMAIN table \cup txns[T].written) |->
                    IF k \in txns[T].written THEN txns[T].view[k] ELSE table[k]]
    /\ txns' = [U \in Txns |->
                  IF U = T THEN [txns[T] EXCEPT !.state = "committed"]
                  ELSE IF txns[U].state \in {"active", "failed"}
                  THEN [txns[U] EXCEPT !.stale = @ \cup txns[T].written]
                  ELSE txns[U]]
    /\ UNCHANGED <<unique, op, bulk, hist, fedSorted, aborted, cur, scan, savedNext, undo, fed, ident, fault, sess>>

TxnAbort(T) ==
    /\ txns[T].state \in {"active", "failed"}
    /\ txns' = [txns EXCEPT ![T] = [@ EXCEPT !.state = "aborted", !.written = {}]]
    /\ UNCHANGED <<unique, table, op, bulk, hist, fedSorted, aborted, cur, scan, savedNext, undo, fed, ident, fault, sess>>

\* the index before the transactions start: empty, or one row of one record
InitTxn ==
    /\ unique = TRUE
    /\ table \in {EmptyTable} \cup { (RowKey(v) :> <<l>>) : v \in KeyValues, l \in Locs }
    /\ op = NoOp
    /\ bulk = NoBulk
    /\ hist = NoHist
    /\ fedSorted = TRUE
    /\ aborted = FALSE
    /\ txns = [T \in Txns |-> NoTxn]
    /\ cur = NoCursor
    /\ scan = NoScan
    /\ savedNext = NoPrediction
    /\ undo = NoUndo
    /\ fed = NoFed
    /\ ident = OpenIdent
    /\ fault = NoFault
    /\ sess = NoSessions

NextTxn ==
    \/ \E T \in Txns : TxnBegin(T)
    \/ \E T \in Txns, key \in PlainKeys, loc \in Locs, d \in BOOLEAN : TxnInsert(T, key, loc, d)
    \/ \E T \in Txns : TxnCommit(T)
    \/ \E T \in Txns : TxnAbort(T)

SpecTxn == InitTxn /\ [][NextTxn]_vars

(***************************************************************************)
(* The engine's cursor over a table.  A position is a key of the table,    *)
(* or <<>> for a cursor that is not positioned.                            *)
(***************************************************************************)
MinKey(S) == CHOOSE k \in S : \A j \in S : KSCompare(k, j) <= 0

MaxKey(S) == CHOOSE k \in S : \A j \in S : KSCompare(k, j) >= 0

\* WT_CURSOR::next: from no position, the first row
WtNext(t, pos) ==
    LET S == IF pos = <<>> THEN DOMAIN t ELSE {j \in DOMAIN t : KSCompare(j, pos) > 0}
    IN IF S = {} THEN [ret |-> "WT_NOTFOUND", pos |-> <<>>]
       ELSE [ret |-> "OK", pos |-> MinKey(S)]

\* WT_CURSOR::prev: from no position, the last row
WtPrev(t, pos) ==
    LET S == IF pos = <<>> THEN DOMAIN t ELSE {j \in DOMAIN t : KSCompare(j, pos) < 0}
    IN IF S = {} THEN [ret |-> "WT_NOTFOUND", pos |-> <<>>]
       ELSE [ret |-> "OK", pos |-> MaxKey(S)]

\* WT_CURSOR::search_near: the row of the key when there is one, else either
\* neighbour, with the sign of (row found - key searched); the outcomes
WtSearchNear(t, k) ==
    LET below == {j \in DOMAIN t : KSCompare(j, k) < 0}
        above == {j \in DOMAIN t : KSCompare(j, k) > 0}
    IN IF DOMAIN t = {} THEN {[ret |-> "WT_NOTFOUND", pos |-> <<>>, cmp |-> 0]}
       ELSE IF k \in DOMAIN t THEN {[ret |-> "OK", pos |-> k, cmp |-> 0]}
       ELSE (IF below = {} THEN {} ELSE {[ret |-> "OK", pos |-> MaxKey(below), cmp |-> -1]})
            \cup (IF above = {} THEN {} ELSE {[ret |-> "OK", pos |-> MinKey(above), cmp |-> 1]})

(***************************************************************************)
(* WiredTigerIndexCursorBase and its two subclasses, as functions of the   *)
(* cursor's members c and the table t.                                     *)
(***************************************************************************)
\* the keys the cursor is driven with, with and without type bits
CursorKeys == {[v |-> v, tb |-> v % 2, size |-> 16] : v \in KeyValues}

\* the record ids of the entries a cursor runs over
MaxCursorLoc == 2

CursorLocs == 1..MaxCursorLoc

\* seek from the start of the index is a seek of the empty key
SeekKeys == CursorKeys \cup {EmptyKey}

\* Fault: advanceWTCursor calling next() whatever the direction.
advanceWTCursorNextOnly(c, t) ==
    LET r == WtNext(t, c.pos)
    IN [c EXCEPT !.pos = r.pos, !.cursorAtEof = (r.ret = "WT_NOTFOUND")]

advanceWTCursor(c, t) ==
    LET r == IF c.forward THEN WtNext(t, c.pos) ELSE WtPrev(t, c.pos)
    IN [c EXCEPT !.pos = r.pos, !.cursorAtEof = (r.ret = "WT_NOTFOUND")]

\* Fault: seekWTCursor without the step off a row on the wrong side.
seekWTCursorNoAdvance(c, t, near) ==
    IF near.ret = "WT_NOTFOUND"
    THEN [cur |-> [c EXCEPT !.pos = <<>>, !.cursorAtEof = TRUE], exact |-> FALSE]
    ELSE [cur |-> [c EXCEPT !.pos = near.pos, !.cursorAtEof = FALSE], exact |-> near.cmp = 0]

\* seekWTCursor(query), near the outcome of the engine's search_near(query):
\* the cursor, and whether it is on an exact match
seekWTCursor(c, t, near) ==
    IF near.ret = "WT_NOTFOUND"
    THEN [cur |-> [c EXCEPT !.pos = <<>>, !.cursorAtEof = TRUE], exact |-> FALSE]
    ELSE LET on == [c EXCEPT !.pos = near.pos, !.cursorAtEof = FALSE]
         IN IF near.cmp = 0 THEN [cur |-> on, exact |-> TRUE]
            ELSE IF (IF c.forward THEN near.cmp < 0 ELSE near.cmp > 0)
            THEN [cur |-> advanceWTCursor(on, t), exact |-> FALSE]
            ELSE [cur |-> on, exact |-> FALSE]

\* Fault: atOrPastEndPointAfterSeeking comparing as a forward cursor does.
atOrPastEndPointForwardOnly(c) ==
    IF c.eof THEN TRUE
    ELSE IF c.endPosition = <<>> THEN FALSE
    ELSE KSCompare(c.key, c.endPosition) > 0

atOrPastEndPointAfterSeeking(c) ==
    IF c.eof THEN TRUE
    ELSE IF c.endPosition = <<>> THEN FALSE
    ELSE LET cmp == KSCompare(c.key, c.endPosition)
         IN IF c.forward THEN cmp > 0 ELSE cmp < 0

\* Fault: the unique cursor taking the first record of a row of several.
updateLocAndTypeBitsFirstOfMany(c, t, u) ==
    IF u
    THEN LET value == t[c.pos]
         IN [cur |-> [c EXCEPT !.loc = Head(value),
                               !.typeBits = TypeBitsFromBuffer(Tail(value)).bits],
             fatal |-> FALSE]
    ELSE [cur |-> [c EXCEPT !.loc = DecodeRecordIdAtEnd(c.key),
                            !.typeBits = TypeBitsFromBuffer(t[c.pos]).bits],
          fatal |-> FALSE]

\* updateLocAndTypeBits of the standard and of the unique cursor; a unique
\* row with bytes after its first record is fatal (28608)
updateLocAndTypeBits(c, t, u) ==
    IF u
    THEN LET value == t[c.pos]
             tb == TypeBitsFromBuffer(Tail(value))
         IN [cur |-> [c EXCEPT !.loc = Head(value), !.typeBits = tb.bits],
             fatal |-> tb.rest # <<>>]
    ELSE [cur |-> [c EXCEPT !.loc = DecodeRecordIdAtEnd(c.key),
                            !.typeBits = TypeBitsFromBuffer(t[c.pos]).bits],
          fatal |-> FALSE]

updatePosition(c, t, u) ==
    LET c0 == [c EXCEPT !.lastMoveWasRestore = FALSE]
    IN IF c0.cursorAtEof
       THEN [cur |-> [c0 EXCEPT !.eof = TRUE, !.loc = 0], fatal |-> FALSE]
       ELSE LET c1 == [c0 EXCEPT !.eof = FALSE, !.key = c0.pos]
            IN IF atOrPastEndPointAfterSeeking(c1)
               THEN [cur |-> [c1 EXCEPT !.eof = TRUE], fatal |-> FALSE]
               ELSE updateLocAndTypeBits(c1, t, u)

\* curr: the entry handed to the caller, the key decoded from _key and
\* _typeBits; NoEntry at the end
curr(c) ==
    IF c.eof THEN NoEntry
    ELSE [v |-> c.key[1] - 10, tb |-> c.typeBits, loc |-> c.loc]

\* Fault: next() advancing whether or not the last move was a restore.
cursorNextAlwaysAdvance(c, t, u) ==
    IF c.eof THEN [cur |-> c, fatal |-> FALSE]
    ELSE updatePosition(advanceWTCursor(c, t), t, u)

\* Fault: next() moving on from the end.
cursorNextPastEof(c, t, u) ==
    updatePosition(IF ~c.lastMoveWasRestore THEN advanceWTCursor(c, t) ELSE c, t, u)

\* next(): nothing at the end, else the entry after the move
cursorNext(c, t, u) ==
    IF c.eof THEN [cur |-> c, fatal |-> FALSE]
    ELSE updatePosition(IF ~c.lastMoveWasRestore THEN advanceWTCursor(c, t) ELSE c, t, u)

\* the query of seek(key, inclusive)
seekQuery(c, key, inclusive) ==
    KeyString(key, IF c.forward = inclusive THEN "kExclusiveBefore" ELSE "kExclusiveAfter")

\* _cursor.emplace: the engine cursor of the object is a new one, made by
\* the constructor or by restore; cursor is "none" while _cursor is empty
emplace(c, by) == [c EXCEPT !.cursor = by]

\* Fault: restore making an engine cursor whether or not it has one.
restoreBaseEmplaceAlways(c, t, near) ==
    LET c0 == emplace(c, "restore")
    IN IF c0.eof THEN c0
       ELSE LET s == seekWTCursor(c0, t, near)
            IN [s.cur EXCEPT !.lastMoveWasRestore = ~s.exact]

\* WiredTigerIndexCursorBase::restore, near the outcome of search_near(_key)
restoreBase(c, t, near) ==
    LET c0 == IF c.cursor = "none" THEN emplace(c, "restore") ELSE c
    IN IF c0.eof THEN c0
       ELSE LET s == seekWTCursor(c0, t, near)
            IN [s.cur EXCEPT !.lastMoveWasRestore = ~s.exact]

\* Fault: the unique cursor restoring as the base does.
restoreUniqueNoFix(c, t, near) == restoreBase(c, t, near)

\* WiredTigerIndexUniqueCursor::restore
restoreUnique(c, t, near) ==
    LET b == restoreBase(c, t, near)
    IN IF b.lastMoveWasRestore \/ b.eof THEN b
       ELSE LET locInIndex == Head(t[b.pos])
                moved == [b EXCEPT !.lastMoveWasRestore = TRUE]
            IN IF locInIndex = b.loc THEN b
               ELSE IF b.forward /\ locInIndex < b.loc THEN advanceWTCursor(moved, t)
               ELSE IF ~b.forward /\ locInIndex > b.loc THEN advanceWTCursor(moved, t)
               ELSE moved

(***************************************************************************)
(* The cursor's operations.  Other work changes the index only before the  *)
(* cursor is made and while it is saved.                                   *)
(***************************************************************************)
Call(name, key, inclusive) == [name |-> name, key |-> key, inclusive |-> inclusive]

\* whether the seek starts a scan of the whole index: inclusive, unbounded,
\* no entry on the near side of the key
StartsScan(c, t, key, inclusive) ==
    /\ inclusive
    /\ c.endPosition = <<>>
    /\ \A k \in DOMAIN t : key.v = 0 \/ (IF c.forward THEN k[1] - 10 >= key.v ELSE k[1] - 10 <= key.v)

\* WiredTigerIndex::newCursor
NewCursor(forward) ==
    /\ cur.state = "none" /\ ~aborted
    /\ cur' = emplace([NoCursor EXCEPT !.state = "open", !.forward = forward,
                                       !.txn = "txn",
                                       !.call = Call("newCursor", EmptyKey, TRUE)],
                      "constructor")
    /\ UNCHANGED <<table, aborted, scan, savedNext, nonCursorVars>>

Seek(key, inclusive) ==
    /\ cur.state = "open" /\ ~aborted
    /\ \E near \in WtSearchNear(table, seekQuery(cur, key, inclusive)) :
         LET r == updatePosition(seekWTCursor(cur, table, near).cur, table, unique)
         IN /\ cur' = [r.cur EXCEPT !.call = Call("seek", key, inclusive)]
            /\ aborted' = r.fatal
            /\ scan' = IF StartsScan(cur, table, key, inclusive) /\ ~r.fatal
                       THEN [valid |-> TRUE,
                             seq |-> IF r.cur.eof THEN <<>> ELSE <<curr(r.cur)>>]
                       ELSE NoScan
    /\ savedNext' = NoPrediction
    /\ UNCHANGED <<table, nonCursorVars>>

NextEntry ==
    /\ cur.state = "open" /\ ~aborted
    /\ LET r == cursorNext(cur, table, unique)
       IN /\ cur' = [r.cur EXCEPT !.call = Call("next", EmptyKey, TRUE)]
          /\ aborted' = r.fatal
          /\ scan' = IF r.fatal \/ ~scan.valid THEN NoScan
                     ELSE IF r.cur.eof THEN scan
                     ELSE [scan EXCEPT !.seq = Append(@, curr(r.cur))]
    /\ savedNext' = IF cur.call.name = "restore" THEN savedNext ELSE NoPrediction
    /\ UNCHANGED <<table, nonCursorVars>>

\* setEndPosition, called as an index scan does: before the first seek
SetEndPosition(key, inclusive) ==
    /\ cur.state = "open" /\ ~aborted
    /\ cur.call.name \in {"newCursor", "setEndPosition"}
    /\ cur' = [cur EXCEPT
                 !.endPosition =
                     IF key.v = 0 THEN <<>>
                     ELSE KeyString(key, IF cur.forward = inclusive THEN "kExclusiveAfter"
                                         ELSE "kExclusiveBefore"),
                 !.endArg = IF key.v = 0 THEN NoCall ELSE Call("bound", key, inclusive),
                 !.call = Call("setEndPosition", EmptyKey, TRUE)]
    /\ scan' = IF key.v = 0 THEN scan ELSE NoScan
    /\ UNCHANGED <<table, aborted, savedNext, nonCursorVars>>

\* Fault: savePositioned forgetting the entry the cursor is on.
savePositionedForget(c) ==
    [c EXCEPT !.pos = <<>>, !.key = <<>>, !.loc = 0, !.typeBits = 0]

\* savePositioned(): the engine cursor, when there is one, is reset
savePositioned(c) == IF c.cursor # "none" THEN [c EXCEPT !.pos = <<>>] ELSE c

\* savePositioned; savedNext keeps what next() would return were the cursor
\* not saved, until the next() after restore has returned
SavePositioned ==
    /\ cur.state \in {"open", "failed"} /\ ~aborted
    /\ cur' = [savePositioned(cur) EXCEPT !.state = "saved",
                                          !.call = Call("savePositioned", EmptyKey, TRUE)]
    /\ savedNext' = IF cur.call.name \in {"seek", "next"}
                    THEN LET r == cursorNext(cur, table, unique)
                         IN IF r.fatal THEN NoPrediction ELSE curr(r.cur)
                    ELSE savedNext
    /\ UNCHANGED <<table, aborted, scan, nonCursorVars>>

Restore ==
    /\ cur.state = "saved" /\ cur.txn # "none" /\ ~aborted
    /\ \E near \in IF cur.eof THEN {[ret |-> "OK", pos |-> <<>>, cmp |-> 0]}
                   ELSE WtSearchNear(table, cur.key) :
         LET r == IF unique THEN restoreUnique(cur, table, near)
                  ELSE restoreBase(cur, table, near)
         IN cur' = [r EXCEPT !.state = "open", !.call = Call("restore", EmptyKey, TRUE)]
    /\ UNCHANGED <<table, aborted, scan, savedNext, nonCursorVars>>

\* insert and unindex by other work
WorkInsert(key, loc, dupsAllowed) ==
    /\ cur.state \in {"none", "saved"} /\ ~aborted
    /\ table' = IndexInsert(table, unique, key, loc, dupsAllowed).table
    /\ scan' = NoScan
    /\ UNCHANGED <<cur, aborted, savedNext, nonCursorVars>>

WorkUnindex(key, loc, dupsAllowed) ==
    /\ cur.state \in {"none", "saved"} /\ ~aborted
    /\ table' = IndexUnindex(table, unique, key, loc, dupsAllowed)
    /\ scan' = NoScan
    /\ UNCHANGED <<cur, aborted, savedNext, nonCursorVars>>

InitCursor == Init

NextCursor ==
    \/ \E forward \in BOOLEAN : NewCursor(forward)
    \/ \E key \in SeekKeys, inclusive \in BOOLEAN : Seek(key, inclusive)
    \/ NextEntry
    \/ \E key \in SeekKeys, inclusive \in BOOLEAN : SetEndPosition(key, inclusive)
    \/ SavePositioned
    \/ Restore
    \/ \E key \in CursorKeys, loc \in CursorLocs, d \in DupsFor(unique) : WorkInsert(key, loc, d)
    \/ \E key \in CursorKeys, loc \in CursorLocs, d \in DupsFor(unique) : WorkUnindex(key, loc, d)

SpecCursor == InitCursor /\ [][NextCursor]_vars

(***************************************************************************)
(* Inserts and unindexes with the table before each insert kept aside:     *)
(* undo.state is "undone" after the unindex of the (key, record id,        *)
(* dupsAllowed) whose insert has just returned OK; undo.added tells        *)
(* whether the index held that (key, record id) before the insert.         *)
(***************************************************************************)
InsertNoted(key, loc, dupsAllowed) ==
    /\ ~aborted
    /\ LET r == IndexInsert(table, unique, key, loc, dupsAllowed)
       IN /\ table' = r.table
          /\ op' = [name |-> "insert", key |-> key, loc |-> loc, dups |-> dupsAllowed,
                    status |-> r.status]
          /\ undo' = IF r.status = "OK"
                     THEN [state |-> "inserted", pre |-> table,
                           added |-> IF unique
                                     THEN \A i \in 1..Len(RowLocs(table, key.v)) :
                                             RowLocs(table, key.v)[i] # loc
                                     ELSE KeyStringWithLoc(key, loc) \notin DOMAIN table]
                     ELSE NoUndo
    /\ UNCHANGED <<unique, bulk, hist, fedSorted, aborted, txns, cur, scan, savedNext, fed, ident, fault, sess>>

UnindexNoted(key, loc, dupsAllowed) ==
    /\ ~aborted
    /\ table' = IndexUnindex(table, unique, key, loc, dupsAllowed)
    /\ op' = [name |-> "unindex", key |-> key, loc |-> loc, dups |-> dupsAllowed,
              status |-> "OK"]
    /\ undo' = IF /\ undo.state = "inserted"
                  /\ op.key.v = key.v /\ op.loc = loc /\ op.dups = dupsAllowed
               THEN [undo EXCEPT !.state = "undone"]
               ELSE NoUndo
    /\ UNCHANGED <<unique, bulk, hist, fedSorted, aborted, txns, cur, scan, savedNext, fed, ident, fault, sess>>

\* the record ids inserted and unindexed
MaxUndoLoc == 2

NextUndo ==
    \/ \E key \in Keys, loc \in 1..MaxUndoLoc, d \in DupsFor(unique) :
          InsertNoted(key, loc, d)
    \/ \E key \in PlainKeys, loc \in 1..MaxUndoLoc, d \in DupsFor(unique) :
          UnindexNoted(key, loc, d)

SpecUndo == Init /\ [][NextUndo]_vars

(***************************************************************************)
(* Inserts and bulk builds with keys at, just under and just over the      *)
(* size limit.                                                             *)
(***************************************************************************)
SizeKeys ==
    {[v |-> v, tb |-> 0, size |-> s] :
        v \in KeyValues, s \in {TempKeyMaxSize - 1, TempKeyMaxSize, TempKeyMaxSize + 1}}

NextSize ==
    \/ \E key \in SizeKeys, loc \in Locs, d \in DupsFor(unique) : Insert(key, loc, d)
    \/ \E d \in DupsFor(unique) : GetBulkBuilder(d)
    \/ \E key \in SizeKeys, loc \in Locs : FeedSorted(key, loc) /\ AddKey(key, loc)
    \/ Commit

SpecSize == Init /\ [][NextSize]_vars

(***************************************************************************)
(* One build of a unique index through its bulk builder, fed any keys in   *)
(* any order; fed keeps, per key value, the record ids of the addKey calls *)
(* that returned OK.                                                       *)
(***************************************************************************)
\* the keys fed to one builder, and their record ids
MaxFeed == 3

MaxFeedLoc == 2

AddKeyNoted(key, loc) ==
    /\ ~aborted /\ bulk.state = "open" /\ bulk.adds < MaxFeed
    /\ LET r == UniqueAddKey(table, bulk, key, loc)
       IN /\ table' = r.table
          /\ bulk' = r.bulk
          /\ aborted' = r.fatal
          /\ op' = [name |-> "addKey", key |-> key, loc |-> loc, dups |-> bulk.dupsAllowed,
                    status |-> r.status]
          /\ fed' = IF r.status = "OK" THEN [fed EXCEPT ![key.v] = Append(@, loc)] ELSE fed
    /\ UNCHANGED <<unique, hist, fedSorted, txns, cur, scan, savedNext, undo, ident, fault, sess>>

NextBuild ==
    \/ \E d \in BOOLEAN : GetBulkBuilder(d)
    \/ \E key \in Keys, loc \in 1..MaxFeedLoc : AddKeyNoted(key, loc)
    \/ Commit

SpecBuild == InitInserts /\ [][NextBuild]_vars

(***************************************************************************)
(* Properties of the index operations.                                     *)
(***************************************************************************)
\* the ascending sequence of a set of record ids
RECURSIVE SortedSeq(_)
SortedSeq(S) ==
    IF S = {} THEN <<>>
    ELSE LET m == CHOOSE x \in S : \A y \in S : x <= y
         IN <<m>> \o SortedSeq(S \ {m})

StrictlyAscending(q) == \A i \in 1..(Len(q) - 1) : q[i] < q[i + 1]

\* how many entries the table holds for (key value v, record id loc)
CountEntry(t, u, v, loc) ==
    IF u THEN Cardinality({i \in 1..Len(RowLocs(t, v)) : RowLocs(t, v)[i] = loc})
    ELSE Cardinality({k \in DOMAIN t : k = RowKey(v) \o <<loc>>})

\* C1: in a unique index whose row at K holds the single record id L1 left
\* by a successful insert(K, L1), insert(K, L2, dupsAllowed = false) with
\* L2 # L1 returns DuplicateKey and leaves the table as it was.
C1_UniqueViolation ==
    [][(/\ unique
        /\ op.name = "insert" /\ op.status = "OK"
        /\ RowLocs(table, op.key.v) = <<op.loc>>
        /\ op'.name = "insert" /\ ~op'.dups
        /\ op'.key.v = op.key.v /\ checkKeySize(op'.key) = "OK"
        /\ op'.loc # op.loc)
       => (/\ op'.status = "DuplicateKey"
           /\ table' = table
           /\ RowLocs(table', op.key.v) = <<op.loc>>)]_vars

C1_Witness ==
    /\ unique
    /\ op.name = "insert" /\ ~op.dups /\ op.status = "DuplicateKey"
    /\ Len(RowLocs(table, op.key.v)) = 1
    /\ RowLocs(table, op.key.v)[1] # op.loc

\* C2: in either flavour, an insert of the (K, L) whose insert has just
\* returned OK returns OK again, changes nothing and leaves exactly one entry
\* for (K, L), whatever dupsAllowed is and whatever else the row holds.
C2_InsertIdempotent ==
    [][(/\ op.name = "insert" /\ op.status = "OK"
        /\ op'.name = "insert"
        /\ op'.key = op.key /\ op'.loc = op.loc)
       => (/\ op'.status = "OK"
           /\ table' = table
           /\ CountEntry(table', unique, op.key.v, op.loc) = 1)]_vars

\* a unique insert without dupsAllowed returns OK on a row of several record
\* ids only when its record id is already there
C2_Witness ==
    /\ unique
    /\ op.name = "insert" /\ ~op.dups /\ op.status = "OK"
    /\ Len(RowLocs(table, op.key.v)) >= 2
    /\ CountEntry(table, unique, op.key.v, op.loc) = 1

\* C4: after any sequence of inserts with dupsAllowed into a unique index, the
\* list at each key is the ascending sequence of the distinct record ids
\* inserted there.
C4_ListSorted ==
    \A v \in KeyValues : RowLocs(table, v) = SortedSeq(hist[v])

C4_Witness ==
    /\ op.name = "insert" /\ op.status = "OK"
    /\ Len(RowLocs(table, op.key.v)) >= 3
    /\ op.loc = RowLocs(table, op.key.v)[2]

\* the rows of a unique table are non-empty and strictly ascending
RowsAscending ==
    \A v \in KeyValues :
        RowKey(v) \in DOMAIN table =>
            /\ RowLocs(table, v) # <<>>
            /\ StrictlyAscending(RowLocs(table, v))

\* C5 as stated: whatever wrote the rows of a unique table (insert, unindex,
\* the bulk builder fed keys in non-decreasing key order), every list is
\* non-empty and strictly ascending by record id.
C5_AsStated == RowsAscending

\* C5: the same, when the bulk builder was fed the record ids of each key in
\* strictly ascending order.
C5_RowsAscending == fedSorted => RowsAscending

C5_Witness ==
    /\ fedSorted
    /\ op.name = "commit"
    /\ \E v \in KeyValues : Len(RowLocs(table, v)) >= 2


\* C3: two transactions inserting different record ids at one key of a unique
\* index without dupsAllowed never both return OK and commit, and the
\* committed row never holds two record ids; beside one that returned OK and
\* committed, the other, unless it was rolled back by choice, has got
\* DuplicateKey or a write conflict.
C3_UniqueUnderConcurrency ==
    \A T \in Txns, U \in Txns :
        (/\ T # U
         /\ txns[T].status # "none" /\ txns[U].status # "none"
         /\ ~txns[T].dups /\ ~txns[U].dups
         /\ txns[T].key.v = txns[U].key.v /\ txns[T].loc # txns[U].loc)
        => (/\ ~(/\ txns[T].status = "OK" /\ txns[T].state = "committed"
                 /\ txns[U].status = "OK" /\ txns[U].state = "committed")
            /\ Len(RowLocs(table, txns[T].key.v)) <= 1
            /\ (txns[T].status = "OK" /\ txns[T].state = "committed"
                  /\ txns[U].state \in {"committed", "failed"})
               => txns[U].status \in {"DuplicateKey", "WriteConflict"})

C3_Witness ==
    /\ txns[1].status = "OK" /\ txns[1].state = "committed" /\ ~txns[1].dups
    /\ txns[2].status = "WriteConflict" /\ ~txns[2].dups
    /\ txns[1].key.v = txns[2].key.v /\ txns[1].loc # txns[2].loc
    /\ RowLocs(table, txns[1].key.v) = <<txns[1].loc>>


(***************************************************************************)
(* Properties of the cursor.  An entry is (key value, type bits, record    *)
(* id); the entries of an index are ordered by key value, then record id.  *)
(***************************************************************************)
Entries(t, u) ==
    IF u
    THEN UNION {LET row == ParseList(t[k])
                IN {[v |-> k[1] - 10, tb |-> row[i][2], loc |-> row[i][1]] : i \in 1..Len(row)}
                  : k \in DOMAIN t}
    ELSE {[v |-> k[1] - 10, tb |-> TypeBitsFromBuffer(t[k]).bits, loc |-> k[Len(k)]]
            : k \in DOMAIN t}

\* b lies beyond a in the cursor's direction of travel
Beyond(forward, a, b) ==
    IF forward THEN a.v < b.v \/ (a.v = b.v /\ a.loc < b.loc)
    ELSE b.v < a.v \/ (a.v = b.v /\ b.loc < a.loc)

\* the entry of S the cursor meets first, NoEntry when S is empty
First(forward, S) ==
    IF S = {} THEN NoEntry
    ELSE CHOOSE e \in S : \A f \in S : f = e \/ Beyond(forward, e, f)

RECURSIVE InOrder(_, _)
InOrder(forward, S) ==
    IF S = {} THEN <<>>
    ELSE <<First(forward, S)>> \o InOrder(forward, S \ {First(forward, S)})

\* e is not beyond the end bound the cursor was given
InBound(c, e) ==
    \/ c.endArg.name = "none"
    \/ IF c.forward THEN e.v < c.endArg.key.v \/ (e.v = c.endArg.key.v /\ c.endArg.inclusive)
       ELSE e.v > c.endArg.key.v \/ (e.v = c.endArg.key.v /\ c.endArg.inclusive)

Bounded(c, e) == IF e # NoEntry /\ InBound(c, e) THEN e ELSE NoEntry

\* the entries a seek(key, inclusive) may land on; the empty key has no
\* field to differ in
SeekCandidates(forward, key, inclusive, S) ==
    {e \in S : LET cmp == IF key.v = 0 THEN 0 ELSE e.v - key.v
               IN IF forward THEN cmp > 0 \/ (cmp = 0 /\ inclusive)
                  ELSE cmp < 0 \/ (cmp = 0 /\ inclusive)}

\* the entry the cursor's members stand for
SavedAt(c) == [v |-> c.key[1] - 10, tb |-> c.typeBits, loc |-> c.loc]

\* the step is the first next() after a restore of a cursor that was saved
\* on an entry, and it returns
NextAfterRestore ==
    /\ cur.call.name = "restore" /\ cur'.call.name = "next"
    /\ ~cur.eof /\ cur.key # <<>>
    /\ ~aborted'

SingleRows(t) == \A k \in DOMAIN t : Len(ParseList(t[k])) = 1

\* C6: a scan started by an inclusive seek at the near end of the index and
\* driven by next() until it returns nothing has returned every entry of
\* the index exactly once, in ascending order for a forward cursor and in
\* descending order for a reverse cursor.
C6_Exhaustive ==
    (scan.valid /\ cur.call.name = "next" /\ cur.eof /\ ~aborted)
        => scan.seq = InOrder(cur.forward, Entries(table, unique))

C6_Witness ==
    /\ scan.valid /\ cur.call.name = "next" /\ cur.eof /\ ~aborted
    /\ ~cur.forward
    /\ Len(scan.seq) >= 3

\* C7: a seek(K, inclusive) that returns has returned the first entry, in
\* the direction of travel, whose key is >= K (inclusive) or > K (exclusive)
\* for a forward cursor, <= K or < K for a reverse cursor; when there is no
\* such entry, or it lies beyond the end bound, it has returned nothing and
\* the cursor is at EOF.
C7_SeekInclusivity ==
    (cur.call.name = "seek" /\ ~aborted)
        => LET want == Bounded(cur, First(cur.forward,
                           SeekCandidates(cur.forward, cur.call.key, cur.call.inclusive,
                                          Entries(table, unique))))
           IN /\ curr(cur) = want
              /\ cur.eof <=> (want = NoEntry)

C7_Witness ==
    /\ cur.call.name = "seek" /\ ~aborted
    /\ ~cur.call.inclusive /\ cur.call.key.v # 0
    /\ ~cur.eof
    /\ \E e \in Entries(table, unique) : e.v = cur.call.key.v

\* C8: with the end bound set by setEndPosition(K, inclusive), a seek or
\* next that returns an entry returns one that is not beyond K, and not one
\* of key K unless inclusive; the entry it would return without the bound
\* is returned whenever it is within the bound, and nothing otherwise.  With
\* the bound removed by an empty key every entry counts as within.
C8_EndBound ==
    [][ (cur'.call.name \in {"seek", "next"} /\ ~aborted') =>
          LET all == Entries(table, unique)
          IN /\ ~cur'.eof => InBound(cur', curr(cur'))
             /\ cur'.call.name = "seek" =>
                   curr(cur') = Bounded(cur', First(cur.forward,
                                    SeekCandidates(cur.forward, cur'.call.key,
                                                   cur'.call.inclusive, all)))
             /\ (cur'.call.name = "next" /\ cur.call.name \in {"seek", "next"} /\ ~cur.eof) =>
                   curr(cur') = Bounded(cur, First(cur.forward,
                                    {e \in all : Beyond(cur.forward, curr(cur), e)})) ]_vars

C8_Witness ==
    /\ cur.call.name = "next" /\ ~cur.eof /\ ~aborted
    /\ cur.endArg.name = "bound" /\ cur.endArg.inclusive
    /\ curr(cur).v = cur.endArg.key.v
    /\ \E e \in Entries(table, unique) : ~InBound(cur, e)

\* C9 as stated: the first next() after savePositioned, other work and
\* restore returns the entry next() would have returned without them when
\* the index still holds that entry, and its successor when it does not.
C9_AsStated ==
    [][ (NextAfterRestore /\ savedNext \notin {NoPrediction, NoEntry}) =>
          curr(cur') = IF savedNext \in Entries(table, unique) THEN savedNext
                       ELSE Bounded(cur, First(cur.forward,
                                {e \in Entries(table, unique) :
                                    Beyond(cur.forward, savedNext, e)})) ]_vars

\* C9: the first next() after savePositioned, other work and restore
\* returns the first entry beyond the saved position, in the direction of
\* travel, that the index holds at restore (nothing when there is none
\* within the end bound); in a unique index, while every row holds one
\* record id.
C9_RestoreResumes ==
    [][ (NextAfterRestore /\ (unique => SingleRows(table))) =>
          curr(cur') = Bounded(cur, First(cur.forward,
                           {e \in Entries(table, unique) :
                               Beyond(cur.forward, SavedAt(cur), e)})) ]_vars

\* a standard cursor whose next() after restore returned an entry put
\* before the one foretold, which the index still holds
C9_Witness ==
    /\ ~unique /\ cur.call.name = "next" /\ ~aborted
    /\ savedNext \notin {NoPrediction, NoEntry}
    /\ savedNext \in Entries(table, unique)
    /\ ~cur.eof /\ curr(cur) # savedNext

\* C10 as stated: a unique cursor saved on (K, L) whose row has gained a
\* record id beyond L returns (K, that id) from the first next() after
\* restore, and one whose row has gained a record id short of L returns the
\* entry after K.
C10_AsStated ==
    [][ (unique /\ NextAfterRestore) =>
          LET K == cur.key[1] - 10
              row == RowLocs(table, K)
              gained(i) == Beyond(cur.forward, SavedAt(cur), [v |-> K, loc |-> row[i]])
              passed(i) == Beyond(cur.forward, [v |-> K, loc |-> row[i]], SavedAt(cur))
              after == Bounded(cur, First(cur.forward,
                           {e \in Entries(table, unique) :
                               e.v # K /\ Beyond(cur.forward, SavedAt(cur), e)}))
          IN /\ (\E i \in 1..Len(row) : gained(i)) =>
                   \E i \in 1..Len(row) :
                       gained(i) /\ curr(cur').v = K /\ curr(cur').loc = row[i]
             /\ ((\E i \in 1..Len(row) : passed(i)) /\ ~\E i \in 1..Len(row) : gained(i)) =>
                   curr(cur') = after ]_vars

\* C10: a unique cursor saved on (K, L) whose row has come to hold the one
\* record id L', beyond L in the direction of travel, returns (K, L') from
\* the first next() after restore; one whose row holds a record id short
\* of L returns the entry after K, whether or not L is still in the row.
C10_LocCorrection ==
    [][ (unique /\ NextAfterRestore) =>
          LET K == cur.key[1] - 10
              row == RowLocs(table, K)
              gained(i) == Beyond(cur.forward, SavedAt(cur), [v |-> K, loc |-> row[i]])
              passed(i) == Beyond(cur.forward, [v |-> K, loc |-> row[i]], SavedAt(cur))
              after == Bounded(cur, First(cur.forward,
                           {e \in Entries(table, unique) :
                               e.v # K /\ Beyond(cur.forward, SavedAt(cur), e)}))
          IN /\ (Len(row) = 1 /\ gained(1)) =>
                   (curr(cur').v = K /\ curr(cur').loc = row[1])
             /\ (\E i \in 1..Len(row) : passed(i)) => curr(cur') = after ]_vars

\* a restored forward unique cursor that found a greater record id in the
\* place of the one it was saved on
C10_Witness ==
    /\ unique /\ cur.call.name = "restore" /\ cur.forward /\ ~cur.eof
    /\ cur.key # <<>>
    /\ cur.lastMoveWasRestore
    /\ cur.pos = cur.key
    /\ RowLocs(table, cur.key[1] - 10) # <<>>
    /\ Len(RowLocs(table, cur.key[1] - 10)) = 1
    /\ RowLocs(table, cur.key[1] - 10)[1] > cur.loc

(***************************************************************************)
(* Creating the table and constructing the index object over it.  A        *)
(* config string is the sequence of its settings and of the commas between *)
(* them; every item also says which part of the builder's input it came    *)
(* from.  The engine reads a setting given twice by its last occurrence.   *)
(***************************************************************************)
MaxOptions == 2

Comma(from) == [name |-> ",", value |-> "", version |-> 0, from |-> from]

Setting(name, value, from) == [name |-> name, value |-> value, version |-> 0, from |-> from]

\* app_metadata=(formatVersion=<version>,infoObj=<info>)
AppMetadata(version, info, from) ==
    [name |-> "app_metadata", value |-> info, version |-> version, from |-> from]

\* the config text a caller, a hook or an index option passes: nothing, a setting
\* of its own, or settings that go for the key format and the format version
UserTexts(from) ==
    { <<>>,
      <<Setting("split_pct", "90", from)>>,
      <<Setting("key_format", "S", from), Comma(from),
        AppMetadata(kMinimumIndexVersion - 1, "", from)>> }

\* what WiredTigerCustomizationHooks::getOpenConfig gives for the parent namespace
HookTexts == { <<>>, <<Setting("encryption", "hook", "hooks"), Comma("hooks")>> }

\* the fields of the index descriptor's storageEngine.wiredTiger document; check
\* is what WiredTigerUtil::checkTableCreationOptions says of the field
OptionFields ==
    { [fieldName |-> "configString", value |-> text, check |-> "OK"] :
          text \in UserTexts("configString") \ {<<>>} }
    \cup { [fieldName |-> "configString", value |-> <<>>, check |-> "TypeMismatch"],
           [fieldName |-> "unknownOption", value |-> <<>>, check |-> "OK"] }

RECURSIVE OptionsOfLen(_)
OptionsOfLen(n) ==
    IF n = 0 THEN { <<>> }
    ELSE { Append(o, f) : o \in OptionsOfLen(n - 1), f \in OptionFields }

Options == UNION { OptionsOfLen(n) : n \in 0..MaxOptions }

\* the descriptor: its storageEngine element, if an object, and its info document
Descriptors ==
    { [storageEngine |-> [isABSONObj |-> FALSE, wiredTiger |-> <<>>], infoObj |-> "infoObj"] }
    \cup { [storageEngine |-> [isABSONObj |-> TRUE, wiredTiger |-> o], infoObj |-> "infoObj"] :
              o \in Options }

\* WiredTigerUtil::checkTableCreationOptions
checkTableCreationOptions(elem) == elem.check

\* WiredTigerIndex::parseIndexOptions, from the i-th field on, ss written so far
RECURSIVE parseIndexOptionsFrom(_, _, _)
parseIndexOptionsFrom(options, i, ss) ==
    IF i > Len(options) THEN [status |-> "OK", value |-> ss]
    ELSE LET elem == options[i]
         IN IF elem.fieldName = "configString"
            THEN IF checkTableCreationOptions(elem) # "OK"
                 THEN [status |-> checkTableCreationOptions(elem), value |-> <<>>]
                 ELSE parseIndexOptionsFrom(options, i + 1,
                                            ss \o elem.value \o <<Comma("configString")>>)
            ELSE [status |-> "InvalidOptions", value |-> <<>>]

parseIndexOptions(options) == parseIndexOptionsFrom(options, 1, <<>>)

\* the settings the builder writes first
CreatePrefix(useIndexPrefixCompression) ==
    <<Setting("type", "file", "prefix"), Comma("prefix"),
      Setting("internal_page_max", "16k", "prefix"), Comma("prefix"),
      Setting("leaf_page_max", "16k", "prefix"), Comma("prefix"),
      Setting("checksum", "on", "prefix"), Comma("prefix")>>
    \o (IF useIndexPrefixCompression
        THEN <<Setting("prefix_compression", "true", "prefix"), Comma("prefix")>>
        ELSE <<>>)
    \o <<Setting("block_compressor", "indexBlockCompressor", "prefix"), Comma("prefix")>>

\* the settings the builder writes last
CreateSuffix(desc) ==
    <<Comma("suffix"), Setting("key_format", "u", "suffix"),
      Comma("suffix"), Setting("value_format", "u", "suffix"),
      Comma("suffix"), AppMetadata(kCurrentIndexVersion, desc.infoObj, "suffix"),
      Comma("suffix")>>

\* the builder with the user's options written after its own last settings
generateCreateStringOptionsLast(useIndexPrefixCompression, hookConfig, extraConfig, desc) ==
    LET ss == CreatePrefix(useIndexPrefixCompression) \o hookConfig \o extraConfig
        parseStatus == parseIndexOptions(desc.storageEngine.wiredTiger)
    IN IF desc.storageEngine.isABSONObj /\ parseStatus.status # "OK"
       THEN [status |-> parseStatus.status, value |-> <<>>]
       ELSE [status |-> "OK",
             value |-> ss \o CreateSuffix(desc)
                       \o (IF desc.storageEngine.isABSONObj /\ parseStatus.value # <<>>
                           THEN <<Comma("configString")>> \o parseStatus.value
                           ELSE <<>>)]

\* WiredTigerIndex::generateCreateString
generateCreateString(useIndexPrefixCompression, hookConfig, extraConfig, desc) ==
    LET ss == CreatePrefix(useIndexPrefixCompression) \o hookConfig \o extraConfig
        parseStatus == parseIndexOptions(desc.storageEngine.wiredTiger)
    IN IF desc.storageEngine.isABSONObj /\ parseStatus.status # "OK"
       THEN [status |-> parseStatus.status, value |-> <<>>]
       ELSE [status |-> "OK",
             value |-> ss
                       \o (IF desc.storageEngine.isABSONObj /\ parseStatus.value # <<>>
                           THEN <<Comma("configString")>> \o parseStatus.value
                           ELSE <<>>)
                       \o CreateSuffix(desc)]

\* the engine's reading of a config string: the positions of a setting
Positions(config, name) == { i \in 1..Len(config) : config[i].name = name }

RECURSIVE MaxOf(_)
MaxOf(S) == LET x == CHOOSE y \in S : TRUE
            IN IF S = {x} THEN x
               ELSE LET m == MaxOf(S \ {x}) IN IF x > m THEN x ELSE m

\* the engine's reading of a config string: the last occurrence of a setting
WtConfigValue(config, name) == config[MaxOf(Positions(config, name))]

\* the formatVersion tag of a table created with the config
MetadataTag(config) ==
    IF Positions(config, "app_metadata") = {} THEN NoTag
    ELSE Tag(WtConfigValue(config, "app_metadata").version)

\* WiredTigerUtil::checkApplicationMetadataFormatVersion
checkApplicationMetadataFormatVersion(tag, minimumVersion, maximumVersion) ==
    IF ~tag.present THEN "UnsupportedFormat"
    ELSE IF tag.version < minimumVersion \/ tag.version > maximumVersion
         THEN "UnsupportedFormat"
    ELSE "OK"

\* the tags of the tables an index may be constructed over: none, or a version
\* in or next to the supported range
TableTags ==
    {NoTag} \cup { Tag(v) : v \in (kMinimumIndexVersion - 1)..(kMaximumIndexVersion + 1) }

\* generateCreateString and WiredTigerIndex::Create with its config string
Create(useIndexPrefixCompression, hookConfig, extraConfig, desc) ==
    /\ ~aborted /\ ident.state = "none" /\ ident.status = "none"
    /\ LET r == generateCreateString(useIndexPrefixCompression, hookConfig, extraConfig, desc)
       IN ident' = IF r.status = "OK"
                   THEN [state |-> "created", status |-> "OK", config |-> r.value,
                         tag |-> MetadataTag(r.value), origin |-> "adapter",
                         options |-> desc.storageEngine.wiredTiger]
                   ELSE [NoIdent EXCEPT !.status = r.status,
                                        !.options = desc.storageEngine.wiredTiger]
    /\ UNCHANGED <<unique, table, op, bulk, hist, fedSorted, aborted, txns, cur, scan,
                   savedNext, undo, fed, fault, sess>>

\* a table that was not created by this version of the adapter
ForeignTable(tag) ==
    /\ ~aborted /\ ident.state = "none" /\ ident.status = "none"
    /\ ident' = [NoIdent EXCEPT !.state = "created", !.tag = tag, !.origin = "foreign"]
    /\ UNCHANGED <<unique, table, op, bulk, hist, fedSorted, aborted, txns, cur, scan,
                   savedNext, undo, fed, fault, sess>>

\* the constructor without the check of the format version
ConstructNoGate ==
    /\ ~aborted /\ ident.state = "created"
    /\ aborted' = FALSE /\ ident' = [OpenIdent EXCEPT !.tag = ident.tag,
                                                      !.origin = ident.origin]
    /\ UNCHANGED <<unique, table, op, bulk, hist, fedSorted, txns, cur, scan, savedNext,
                   undo, fed, fault, sess>>

\* WiredTigerIndex::WiredTigerIndex
Construct ==
    /\ ~aborted /\ ident.state = "created"
    /\ LET versionStatus == checkApplicationMetadataFormatVersion(
                                ident.tag, kMinimumIndexVersion, kMaximumIndexVersion)
       IN IF versionStatus # "OK"
          THEN aborted' = TRUE /\ ident' = ident
          ELSE aborted' = FALSE /\ ident' = [OpenIdent EXCEPT !.tag = ident.tag,
                                                                !.origin = ident.origin]
    /\ UNCHANGED <<unique, table, op, bulk, hist, fedSorted, txns, cur, scan, savedNext,
                   undo, fed, fault, sess>>

\* the operations of an index that is constructed
OpenInsert(key, loc, dupsAllowed) == ident.state = "open" /\ Insert(key, loc, dupsAllowed)

OpenUnindex(key, loc, dupsAllowed) == ident.state = "open" /\ Unindex(key, loc, dupsAllowed)

InitOpen ==
    /\ unique \in BOOLEAN
    /\ table = EmptyTable
    /\ op = NoOp
    /\ bulk = NoBulk
    /\ hist = NoHist
    /\ fedSorted = TRUE
    /\ aborted = FALSE
    /\ txns = [T \in Txns |-> NoTxn]
    /\ cur = NoCursor
    /\ scan = NoScan
    /\ savedNext = NoPrediction
    /\ undo = NoUndo
    /\ fed = NoFed
    /\ ident = NoIdent
    /\ fault = NoFault
    /\ sess = NoSessions

NextOpen ==
    \/ \E c \in BOOLEAN, h \in HookTexts, e \in UserTexts("extraConfig"), d \in Descriptors :
           Create(c, h, e, d)
    \/ \E tag \in TableTags : ForeignTable(tag)
    \/ Construct
    \/ \E key \in PlainKeys, loc \in 1..MaxUndoLoc, d \in DupsFor(unique) :
           OpenInsert(key, loc, d)
    \/ \E key \in PlainKeys, loc \in 1..MaxUndoLoc, d \in DupsFor(unique) :
           OpenUnindex(key, loc, d)

SpecOpen == InitOpen /\ [][NextOpen]_vars

(***************************************************************************)
(* What becomes of a failing engine call.  ret is the engine's return      *)
(* code; the outcome is "ok" (no error), "reported" (the caller reads it   *)
(* from the result: end of data, not a duplicate, the validation output),  *)
(* "returned" (a non-OK Status), "thrown" (WriteConflictException),        *)
(* "aborted" (the process ends) or "swallowed" (the caller learns nothing).*)
(***************************************************************************)
Rets == {"0", "WT_NOTFOUND", "WT_DUPLICATE_KEY", "WT_ROLLBACK", "EBUSY", "EIO"}

\* wtRCToStatus of a return code: WT_ROLLBACK is thrown as a WriteConflictException
wtRCToStatusOnError(ret) ==
    IF ret = "0" THEN "ok" ELSE IF ret = "WT_ROLLBACK" THEN "thrown" ELSE "returned"

\* invariantWTOK: the invariant on wtRCToStatus
invariantWTOK(ret) ==
    IF ret = "0" THEN "ok" ELSE IF ret = "WT_ROLLBACK" THEN "thrown" ELSE "aborted"

\* WiredTigerIndex::fullValidate, the verify of the table; flag: an output is given
fullValidateOnError(call, flag, ret) ==
    IF ret = "0" THEN "ok"
    ELSE IF flag THEN "reported"
    ELSE "swallowed"

\* WiredTigerIndex::isEmpty
isEmptyOnError(call, flag, ret) ==
    IF ret = "WT_NOTFOUND" THEN "reported" ELSE invariantWTOK(ret)

\* WiredTigerIndex::isDup
isDupOnError(call, flag, ret) ==
    IF call = "search" /\ ret = "WT_NOTFOUND" THEN "reported" ELSE invariantWTOK(ret)

\* BulkBuilder::openBulkCursor
openBulkCursorOnError(call, flag, ret) ==
    IF call = "open_cursor_bulk" THEN (IF ret = "0" THEN "ok" ELSE "swallowed")
    ELSE invariantWTOK(ret)

\* StandardBulkBuilder::addKey and UniqueBulkBuilder::doInsert
bulkInsertOnError(call, flag, ret) == invariantWTOK(ret)

\* the cursor: advanceWTCursor, seekWTCursor, seekExact, updatePosition and
\* updateLocAndTypeBits
cursorOnError(call, flag, ret) ==
    IF call \in {"next", "search_near", "search"} /\ ret = "WT_NOTFOUND" THEN "reported"
    ELSE invariantWTOK(ret)

\* WiredTigerIndexCursorBase::savePositioned, and saveUnpositioned which calls it
savePositionedOnError(call, flag, ret) ==
    IF invariantWTOK(ret) = "thrown" THEN "swallowed" ELSE invariantWTOK(ret)

\* WiredTigerIndexUnique::_insert
uniqueInsertOnError(call, flag, ret) ==
    IF call = "insert"
    THEN (IF ret # "WT_DUPLICATE_KEY" THEN wtRCToStatusOnError(ret) ELSE "swallowed")
    ELSE IF call = "update" THEN wtRCToStatusOnError(ret)
    ELSE invariantWTOK(ret)

\* WiredTigerIndexUnique::_unindex; flag: dupsAllowed
uniqueUnindexOnError(call, flag, ret) ==
    IF ~flag
    THEN (IF ret = "WT_NOTFOUND" THEN "swallowed" ELSE invariantWTOK(ret))
    ELSE IF call = "search" /\ ret = "WT_NOTFOUND" THEN "swallowed"
    ELSE invariantWTOK(ret)

\* WiredTigerIndexStandard::_insert
standardInsertOnError(call, flag, ret) ==
    IF ret # "WT_DUPLICATE_KEY" THEN wtRCToStatusOnError(ret) ELSE "swallowed"

\* _unindex of the standard index with every failure of the remove ignored
standardUnindexIgnoreAll(call, flag, ret) ==
    IF ret = "0" THEN "ok" ELSE "swallowed"

\* WiredTigerIndexStandard::_unindex
standardUnindexOnError(call, flag, ret) ==
    IF ret # "WT_NOTFOUND" THEN invariantWTOK(ret) ELSE "swallowed"

\* the engine calls of the adapter's operations
Site(operation, call, flag) == [operation |-> operation, call |-> call, flag |-> flag]

Sites ==
    { Site("fullValidate", "verify", f) : f \in BOOLEAN }
    \cup { Site("isEmpty", "next", FALSE) }
    \cup { Site("isDup", c, FALSE) : c \in {"search", "get_value"} }
    \cup { Site("openBulkCursor", c, FALSE) : c \in {"open_cursor_bulk", "open_cursor"} }
    \cup { Site("bulkInsert", "insert", u) : u \in BOOLEAN }
    \cup { Site("cursor", c, FALSE) :
              c \in {"next", "search_near", "search", "get_key", "get_value"} }
    \cup { Site("savePositioned", "reset", FALSE) }
    \cup { Site("uniqueInsert", c, FALSE) : c \in {"insert", "search", "get_value", "update"} }
    \cup { Site("uniqueUnindex", "remove", FALSE) }
    \cup { Site("uniqueUnindex", c, TRUE) : c \in {"search", "get_value", "remove", "update"} }
    \cup { Site("standardInsert", "insert", FALSE) }
    \cup { Site("standardUnindex", "remove", TRUE) }

OnError(site, ret) ==
    CASE site.operation = "fullValidate" -> fullValidateOnError(site.call, site.flag, ret)
      [] site.operation = "isEmpty" -> isEmptyOnError(site.call, site.flag, ret)
      [] site.operation = "isDup" -> isDupOnError(site.call, site.flag, ret)
      [] site.operation = "openBulkCursor" -> openBulkCursorOnError(site.call, site.flag, ret)
      [] site.operation = "bulkInsert" -> bulkInsertOnError(site.call, site.flag, ret)
      [] site.operation = "cursor" -> cursorOnError(site.call, site.flag, ret)
      [] site.operation = "savePositioned" -> savePositionedOnError(site.call, site.flag, ret)
      [] site.operation = "uniqueInsert" -> uniqueInsertOnError(site.call, site.flag, ret)
      [] site.operation = "uniqueUnindex" -> uniqueUnindexOnError(site.call, site.flag, ret)
      [] site.operation = "standardInsert" -> standardInsertOnError(site.call, site.flag, ret)
      [] site.operation = "standardUnindex" -> standardUnindexOnError(site.call, site.flag, ret)

\* an operation of the adapter makes the engine call of the site, which gives ret
EngineCall(site, ret) ==
    /\ ~aborted
    /\ fault' = [operation |-> site.operation, call |-> site.call, flag |-> site.flag,
                 ret |-> ret, outcome |-> OnError(site, ret)]
    /\ aborted' = (OnError(site, ret) = "aborted")
    /\ UNCHANGED <<unique, table, op, bulk, hist, fedSorted, txns, cur, scan, savedNext,
                   undo, fed, ident, sess>>

NextFault == \E site \in Sites, ret \in Rets : EngineCall(site, ret)

SpecFault == Init /\ [][NextFault]_vars



(***************************************************************************)
(* Properties of unindex, dupKeyCheck and the key size.                    *)
(***************************************************************************)
\* C11: unindex(K, L, dupsAllowed) of a (K, L) the index does not hold
\* leaves the table as it was, in both flavours and for both values of
\* dupsAllowed; an entry (K, L') with L' # L stays.
C11_UnindexAbsentNoOp ==
    [][(/\ op'.name = "unindex"
        /\ CountEntry(table, unique, op'.key.v, op'.loc) = 0)
       => table' = table]_vars

\* C12 as stated: after the unindex(K, L, d) that follows an insert(K, L, d)
\* that returned OK, the table is the table before that insert.
C12_AsStated == undo.state = "undone" => table = undo.pre

\* C12: after the unindex(K, L, d) that follows an insert(K, L, d) that
\* returned OK and added (K, L) to the index, the table is the table before
\* that insert: the same rows, lists and stored type bits.
C12_DeleteInverse == (undo.state = "undone" /\ undo.added) => table = undo.pre

\* the insert put a second record id, with type bits, into a unique row
C12_Witness ==
    /\ undo.state = "undone" /\ undo.added
    /\ unique /\ op.dups
    /\ RowLocs(undo.pre, op.key.v) # <<>>
    /\ RowKey(op.key.v) \in DOMAIN table /\ Len(table[RowKey(op.key.v)]) = 1

\* C13: dupKeyCheck(K, L) on a unique index returns DuplicateKey exactly
\* when the index holds a row at K and no record id of its list is L (OK
\* when there is no row, or L is anywhere in the list), and it leaves the
\* table as it was.
C13_DupKeyCheck ==
    [][op'.name = "dupKeyCheck"
       => (/\ table' = table
           /\ (op'.status = "DuplicateKey") <=>
                 (/\ RowKey(op'.key.v) \in DOMAIN table
                  /\ \A i \in 1..Len(RowLocs(table, op'.key.v)) :
                        RowLocs(table, op'.key.v)[i] # op'.loc)
           /\ op'.status \in {"DuplicateKey", "OK"})]_vars

\* OK for a record id that is the last of a list of several
C13_Witness ==
    /\ unique /\ op.name = "dupKeyCheck" /\ op.status = "OK"
    /\ Len(RowLocs(table, op.key.v)) >= 2
    /\ RowLocs(table, op.key.v)[Len(RowLocs(table, op.key.v))] = op.loc

C15_KeyTooLongNoEffect ==
    [][(op'.name \in {"insert", "addKey"} /\ op'.status = "KeyTooLong")
       => (table' = table /\ bulk' = bulk /\ ~aborted')]_vars

\* the unique builder refusing a greater key while a row is pending
C15_Witness ==
    /\ unique /\ op.name = "addKey" /\ op.status = "KeyTooLong"
    /\ bulk.state = "open" /\ bulk.records # <<>>
    /\ op.key.v > bulk.key.v
    /\ table = EmptyTable

(***************************************************************************)
(* Properties of the unique bulk builder.                                  *)
(***************************************************************************)
\* C16: while a unique builder is fed and committed without a fatal error
\* (its keys do not decrease), a row is written only for the pending key,
\* only by the addKey of a strictly greater key or by commit, and is never
\* written again; after commit the table holds one row for each key value
\* taken, whose list is the record ids taken for it in arrival order.
C16_UniqueBulkBuild ==
    [][(bulk.state = "open" /\ ~aborted')
       => (/\ \A k \in DOMAIN table : k \in DOMAIN table' /\ table'[k] = table[k]
           /\ \A k \in DOMAIN table' \ DOMAIN table :
                 /\ k = KeyString(bulk.key, "kInclusive")
                 /\ \/ op'.name = "addKey" /\ woCompare(op'.key, bulk.key) > 0
                    \/ op'.name = "commit"
                 /\ RowLocs(table', bulk.key.v) = fed[bulk.key.v]
           /\ op'.name = "commit" =>
                 \A v \in KeyValues : RowLocs(table', v) = fed'[v])]_vars

\* a committed build, with duplicates allowed, of a row of two record ids
\* followed by a greater key
C16_Witness ==
    /\ op.name = "commit" /\ ~aborted
    /\ Len(fed[1]) = 2 /\ Len(fed[2]) = 1
    /\ RowLocs(table, 1) = fed[1] /\ RowLocs(table, 2) = fed[2]

\* C17: a unique builder made with dupsAllowed = false returns DuplicateKey
\* for an addKey whose key equals the pending key, and leaves the pending
\* records and the table as they were; the pending record is then written
\* as a row of one record id by the addKey of a greater key or by commit.
C17_BulkDuplicateKey ==
    [][(bulk.state = "open" /\ ~bulk.dupsAllowed /\ ~aborted')
       => (/\ (/\ op'.name = "addKey" /\ checkKeySize(op'.key) = "OK"
               /\ woCompare(op'.key, bulk.key) = 0)
                 => (op'.status = "DuplicateKey" /\ bulk' = bulk /\ table' = table)
           /\ (/\ bulk.records # <<>>
               /\ \/ op'.name = "commit"
                  \/ op'.name = "addKey" /\ op'.status = "OK")
                 => (/\ Len(bulk.records) = 1
                     /\ RowLocs(table', bulk.key.v) = <<bulk.records[1][1]>>))]_vars

\* the builder has refused a second record id for the pending key
C17_Witness ==
    /\ op.name = "addKey" /\ op.status = "DuplicateKey" /\ ~aborted
    /\ bulk.state = "open" /\ ~bulk.dupsAllowed
    /\ Len(bulk.records) = 1 /\ bulk.records[1][1] # op.loc
    /\ table = EmptyTable

\* a tag in the supported range of format versions
Supported(tag) == tag.present /\ tag.version \in {6}

\* C18: constructing an index over a table whose formatVersion tag is missing
\* or outside {6} aborts the process and leaves no index object, no index
\* operation runs unless an index was constructed over a table with a
\* supported tag and the process has not aborted, and constructing an index
\* over a table made with the adapter's own create config never aborts.
C18_FormatGate ==
    [][ /\ (ident.state = "created" /\ (ident' # ident \/ aborted' # aborted))
            => /\ ~Supported(ident.tag) => (aborted' /\ ident'.state # "open")
               /\ ident.origin = "adapter" => (~aborted' /\ ident'.state = "open")
        /\ (op' # op \/ table' # table)
            => (ident.state = "open" /\ Supported(ident.tag) /\ ~aborted) ]_vars

\* the constructor has aborted over a table whose tag is above the range
C18_Witness ==
    /\ aborted /\ ident.state = "created" /\ ident.origin = "foreign"
    /\ ident.tag.present /\ ident.tag.version > 6
    /\ op = NoOp /\ table = EmptyTable

\* the last occurrence of the three pinned settings is the builder's own, with
\* the pinned value, and every item of another origin stands before it
PinnedLast(c) ==
    /\ \A n \in {"key_format", "value_format", "app_metadata"} :
          /\ Positions(c, n) # {}
          /\ WtConfigValue(c, n).from = "suffix"
          /\ \A j \in 1..Len(c) : c[j].from # "suffix" => j < MaxOf(Positions(c, n))
    /\ WtConfigValue(c, "key_format").value = "u"
    /\ WtConfigValue(c, "value_format").value = "u"
    /\ WtConfigValue(c, "app_metadata").version = 6

\* the positions of the option fields that are not configString
OtherFields(options) == { i \in 1..Len(options) : options[i].fieldName # "configString" }

\* C20 as stated: every config string the builder returns has the pinned
\* settings last, and options with any field other than configString give
\* InvalidOptions and no config string.
C20_AsStated ==
    /\ (ident.state = "created" /\ ident.origin = "adapter" /\ ident.status = "OK")
          => PinnedLast(ident.config)
    /\ OtherFields(ident.options) # {}
          => (ident.status = "InvalidOptions" /\ ident.config = <<>> /\ ident.state = "none")

\* C20: every config string the builder returns has the pinned settings last;
\* options with any field other than configString give an error and no config
\* string, and the error is InvalidOptions unless a configString field before
\* the first such field was itself rejected.
C20_CreateConfig ==
    /\ (ident.state = "created" /\ ident.origin = "adapter" /\ ident.status = "OK")
          => PinnedLast(ident.config)
    /\ OtherFields(ident.options) # {}
          => /\ ident.status \notin {"OK", "none"}
             /\ ident.config = <<>> /\ ident.state = "none"
             /\ (\A j \in 1..(MaxOf(OtherFields(ident.options)) - 1) :
                    ident.options[j].fieldName = "configString"
                       => ident.options[j].check = "OK")
                  => ident.status = "InvalidOptions"

\* a config string was returned although the caller's extra config and the
\* configString both set the key format and the format version
C20_Witness ==
    /\ ident.state = "created" /\ ident.origin = "adapter" /\ ident.status = "OK"
    /\ \E i, j \in Positions(ident.config, "app_metadata") :
          /\ ident.config[i].from = "extraConfig" /\ ident.config[i].version # 6
          /\ ident.config[j].from = "configString" /\ ident.config[j].version # 6
    /\ \E i \in Positions(ident.config, "key_format") :
          ident.config[i].from = "configString" /\ ident.config[i].value # "u"

\* the three cases in which an error of the engine may stay with the adapter
RemoveNotFound ==
    fault.operation \in {"uniqueUnindex", "standardUnindex"} /\ fault.ret = "WT_NOTFOUND"

InsertDuplicateKey ==
    /\ fault.operation \in {"uniqueInsert", "standardInsert"} /\ fault.call = "insert"
    /\ fault.ret = "WT_DUPLICATE_KEY"

BulkOpenFailure == fault.operation = "openBulkCursor" /\ fault.call = "open_cursor_bulk"

\* the two further cases the code has
SaveWriteConflict == fault.operation = "savePositioned" /\ fault.ret = "WT_ROLLBACK"

ValidateNoOutput == fault.operation = "fullValidate" /\ ~fault.flag

RECURSIVE Without(_, _)
Without(list, loc) ==
    IF list = <<>> THEN <<>>
    ELSE (IF Head(list)[1] = loc THEN <<>> ELSE <<Head(list)>>) \o Without(Tail(list), loc)

\* C21: unindex(K, L, dupsAllowed = true) on a unique index leaves the table
\* as it was when there is no row at K or L is not in its list; removes the
\* row when L is its only entry; otherwise leaves at K the old list of
\* (record id, type bits) pairs without L, the others in their order; and
\* touches no other row.
C21_UnindexFrame ==
    [][(unique /\ op'.name = "unindex" /\ op'.dups)
       => LET data == RowKey(op'.key.v)
              old == IF data \in DOMAIN table THEN ParseList(table[data]) ELSE <<>>
              rest == Without(old, op'.loc)
          IN /\ \A k \in (DOMAIN table \cup DOMAIN table') \ {data} :
                   k \in DOMAIN table /\ k \in DOMAIN table' /\ table'[k] = table[k]
             /\ rest = old => table' = table
             /\ (rest # old /\ rest = <<>>) => data \notin DOMAIN table'
             /\ (rest # old /\ rest # <<>>)
                   => (data \in DOMAIN table' /\ ParseList(table'[data]) = rest)]_vars

\* record id 2 was taken out of a row that keeps record ids 1 and 3, the
\* first of them with type bits that are not all zero
C21_Witness ==
    /\ unique /\ op.name = "unindex" /\ op.dups /\ op.loc = 2
    /\ RowKey(op.key.v) \in DOMAIN table
    /\ ParseList(table[RowKey(op.key.v)]) = <<<<1, 1>>, <<3, 0>>>>

\* the type bits the keys of the model have
KeyTypeBits == { k.tb : k \in Keys }

\* C22: in every reachable state of a unique index, a row whose list has one
\* entry with all-zero type bits stores the record id alone, a row whose list
\* has two or more entries stores type bits with every record id, and what
\* is stored reads back as record ids and type bits that were put in.
C22_TypeBitsElision ==
    unique =>
       \A k \in DOMAIN table :
          LET list == ParseList(table[k])
          IN /\ Len(list) >= 1
             /\ (Len(list) = 1 /\ list[1][2] = 0) => Len(table[k]) = 1
             /\ Len(list) >= 2 => Len(table[k]) = 2 * Len(list)
             /\ \A i \in 1..Len(list) : list[i][1] \in Locs /\ list[i][2] \in KeyTypeBits

\* an unindex has left one row with a single record id and no type bits,
\* beside a row of two record ids with type bits for both
C22_Witness ==
    /\ unique /\ op.name = "unindex" /\ op.dups /\ op.key.v = 2
    /\ RowKey(2) \in DOMAIN table /\ table[RowKey(2)] = <<3>>
    /\ RowKey(1) \in DOMAIN table /\ table[RowKey(1)] = <<1, 1, 2, 0>>

\* record id loc is in the row of key value v
InRow(t, v, loc) == \E i \in 1..Len(RowLocs(t, v)) : RowLocs(t, v)[i] = loc

\* C23: two transactions that insert different record ids with dupsAllowed at
\* one key, whose row both found in their snapshots: when both inserts have
\* returned OK and both transactions have committed, the row holds both
\* record ids; when both have ended, by commit or by the failure of the
\* insert, and not both returned OK and committed, one of them has got a
\* write conflict.
C23_NoLostUpdate ==
    \A T \in Txns, U \in Txns :
        (/\ T # U
         /\ txns[T].status # "none" /\ txns[U].status # "none"
         /\ txns[T].dups /\ txns[U].dups
         /\ txns[T].key.v = txns[U].key.v /\ txns[T].loc # txns[U].loc
         /\ RowKey(txns[T].key.v) \in DOMAIN txns[T].snapshot
         /\ RowKey(txns[U].key.v) \in DOMAIN txns[U].snapshot)
        => LET both == /\ txns[T].status = "OK" /\ txns[T].state = "committed"
                       /\ txns[U].status = "OK" /\ txns[U].state = "committed"
           IN /\ both => (/\ InRow(table, txns[T].key.v, txns[T].loc)
                          /\ InRow(table, txns[T].key.v, txns[U].loc))
              /\ (~both /\ txns[T].state \in {"committed", "failed"}
                        /\ txns[U].state \in {"committed", "failed"})
                    => (txns[T].status = "WriteConflict" \/ txns[U].status = "WriteConflict")

\* the second transaction began before the first committed, and its insert
\* at the row the first had changed got the write conflict
C23_Witness ==
    /\ txns[1].status = "OK" /\ txns[1].state = "committed" /\ txns[1].dups
    /\ txns[2].status = "WriteConflict" /\ txns[2].state = "failed" /\ txns[2].dups
    /\ txns[1].key.v = txns[2].key.v /\ txns[1].loc # txns[2].loc
    /\ RowKey(txns[1].key.v) \in DOMAIN txns[1].snapshot
    /\ txns[2].snapshot = txns[1].snapshot
    /\ InRow(table, txns[1].key.v, txns[1].loc)
    /\ ~InRow(table, txns[1].key.v, txns[2].loc)

(***************************************************************************)
(* The cursor across yields and failing moves: seekExact of the unique     *)
(* cursor, saveUnpositioned, the detach from and reattach to an operation  *)
(* context while saved, and the moves whose engine call is a               *)
(* WT_ROLLBACK, after which the caller saves and restores the cursor.      *)
(***************************************************************************)
\* WT_CURSOR::search: the row of the key, or WT_NOTFOUND
WtSearch(t, k) ==
    IF k \in DOMAIN t THEN [ret |-> "OK", pos |-> k]
    ELSE [ret |-> "WT_NOTFOUND", pos |-> <<>>]

\* WiredTigerIndexUniqueCursor::seekExact
seekExact(c, t, key) ==
    LET r == WtSearch(t, KeyString(key, "kInclusive"))
    IN updatePosition([c EXCEPT !.pos = r.pos, !.cursorAtEof = (r.ret = "WT_NOTFOUND")],
                      t, TRUE)

\* saveUnpositioned()
saveUnpositioned(c) == [savePositioned(c) EXCEPT !.eof = TRUE]

\* Fault: detachFromOperationContext keeping the engine cursor.
detachFromOperationContextKeep(c) == [c EXCEPT !.txn = "none"]

\* detachFromOperationContext(): the engine cursor goes with the context
detachFromOperationContext(c) == [c EXCEPT !.txn = "none", !.cursor = "none", !.pos = <<>>]

\* reattachToOperationContext(txn)
reattachToOperationContext(c, txn) == [c EXCEPT !.txn = txn]

\* the operation context a cursor is given again after a yield
Contexts == {"txn"}

\* where an engine call that failed may leave the engine cursor
Anywhere(t) == DOMAIN t \cup {<<>>}

\* Fault: a failing advance whose cached position follows the engine cursor.
advanceWTCursorOnConflictMoved(c, at) ==
    [c EXCEPT !.pos = at, !.key = IF at = <<>> THEN c.key ELSE at]

\* advanceWTCursor when next/prev is WT_ROLLBACK: invariantWTOK throws before
\* _cursorAtEof is written, and next() is left before updatePosition
advanceWTCursorOnConflict(c, at) == [c EXCEPT !.pos = at]

\* seekWTCursor when search_near is WT_ROLLBACK, or when search_near has
\* landed on the wrong side and the advance is WT_ROLLBACK
seekWTCursorOnConflict(c, step, at) ==
    IF step = "search_near" THEN [c EXCEPT !.pos = at]
    ELSE advanceWTCursorOnConflict([c EXCEPT !.cursorAtEof = FALSE], at)

\* seekExact when search is WT_ROLLBACK: invariantWTOK throws before
\* _cursorAtEof is written
seekExactOnConflict(c, at) == [c EXCEPT !.pos = at]

SeekExact(key) ==
    /\ cur.state = "open" /\ unique /\ ~aborted
    /\ LET r == seekExact(cur, table, key)
       IN /\ cur' = [r.cur EXCEPT !.call = Call("seekExact", key, TRUE)]
          /\ aborted' = r.fatal
    /\ scan' = NoScan
    /\ savedNext' = NoPrediction
    /\ UNCHANGED <<table, nonCursorVars>>

SaveUnpositioned ==
    /\ cur.state \in {"open", "failed", "saved"} /\ ~aborted
    /\ cur' = [saveUnpositioned(cur) EXCEPT !.state = "saved",
                                            !.call = Call("saveUnpositioned", EmptyKey, TRUE)]
    /\ scan' = NoScan
    /\ savedNext' = NoPrediction
    /\ UNCHANGED <<table, aborted, nonCursorVars>>

\* a saved cursor is detached from its operation context
DetachFromOperationContext ==
    /\ cur.state = "saved" /\ cur.txn # "none" /\ ~aborted
    /\ cur' = [detachFromOperationContext(cur) EXCEPT
                 !.call = Call("detachFromOperationContext", EmptyKey, TRUE)]
    /\ UNCHANGED <<table, aborted, scan, savedNext, nonCursorVars>>

ReattachToOperationContext(txn) ==
    /\ cur.state = "saved" /\ cur.txn = "none" /\ ~aborted
    /\ cur' = [reattachToOperationContext(cur, txn) EXCEPT
                 !.call = Call("reattachToOperationContext", EmptyKey, TRUE)]
    /\ UNCHANGED <<table, aborted, scan, savedNext, nonCursorVars>>

\* next() whose advance is a write conflict
NextConflict(at) ==
    /\ cur.state = "open" /\ ~cur.eof /\ ~cur.lastMoveWasRestore /\ ~aborted
    /\ cur' = [advanceWTCursorOnConflict(cur, at) EXCEPT
                 !.state = "failed", !.call = Call("next conflict", EmptyKey, TRUE)]
    /\ scan' = NoScan
    /\ savedNext' = NoPrediction
    /\ UNCHANGED <<table, aborted, nonCursorVars>>

\* seek(key, inclusive) whose search_near, or whose advance, is a write conflict
SeekConflict(key, inclusive, step, at) ==
    /\ cur.state = "open" /\ ~aborted
    /\ step = "advance" =>
          \E near \in WtSearchNear(table, seekQuery(cur, key, inclusive)) :
             near.ret = "OK" /\ (IF cur.forward THEN near.cmp < 0 ELSE near.cmp > 0)
    /\ cur' = [seekWTCursorOnConflict(cur, step, at) EXCEPT
                 !.state = "failed", !.call = Call("seek conflict", key, inclusive)]
    /\ scan' = NoScan
    /\ savedNext' = NoPrediction
    /\ UNCHANGED <<table, aborted, nonCursorVars>>

\* seekExact(key) whose search is a write conflict
SeekExactConflict(key, at) ==
    /\ cur.state = "open" /\ unique /\ ~aborted
    /\ cur' = [seekExactOnConflict(cur, at) EXCEPT
                 !.state = "failed", !.call = Call("seekExact conflict", key, TRUE)]
    /\ scan' = NoScan
    /\ savedNext' = NoPrediction
    /\ UNCHANGED <<table, aborted, nonCursorVars>>

\* the cursor of an index scan with an inclusive end bound, with the
\* unpositioned save and seekExact
NextScan ==
    \/ \E forward \in BOOLEAN : NewCursor(forward)
    \/ \E key \in CursorKeys : SetEndPosition(key, TRUE)
    \/ \E key \in SeekKeys, inclusive \in BOOLEAN : Seek(key, inclusive)
    \/ \E key \in CursorKeys : SeekExact(key)
    \/ NextEntry
    \/ SavePositioned
    \/ SaveUnpositioned
    \/ Restore
    \/ \E key \in CursorKeys, loc \in CursorLocs, d \in DupsFor(unique) : WorkInsert(key, loc, d)
    \/ \E key \in CursorKeys, loc \in CursorLocs, d \in DupsFor(unique) : WorkUnindex(key, loc, d)

SpecScan == InitCursor /\ [][NextScan]_vars

\* the cursor of SpecCursor with seekExact
NextSeeks ==
    \/ \E forward \in BOOLEAN : NewCursor(forward)
    \/ \E key \in SeekKeys, inclusive \in BOOLEAN : SetEndPosition(key, inclusive)
    \/ \E key \in SeekKeys, inclusive \in BOOLEAN : Seek(key, inclusive)
    \/ \E key \in CursorKeys : SeekExact(key)
    \/ NextEntry
    \/ SavePositioned
    \/ Restore
    \/ \E key \in CursorKeys, loc \in CursorLocs, d \in DupsFor(unique) : WorkInsert(key, loc, d)
    \/ \E key \in CursorKeys, loc \in CursorLocs, d \in DupsFor(unique) : WorkUnindex(key, loc, d)

SpecSeeks == InitCursor /\ [][NextSeeks]_vars

\* the cursor of a scan of the whole index that is detached and reattached
\* while saved
NextYield ==
    \/ \E forward \in BOOLEAN : NewCursor(forward)
    \/ Seek(EmptyKey, TRUE)
    \/ \E key \in CursorKeys : SeekExact(key)
    \/ NextEntry
    \/ SavePositioned
    \/ SaveUnpositioned
    \/ Restore
    \/ DetachFromOperationContext
    \/ \E txn \in Contexts : ReattachToOperationContext(txn)
    \/ \E key \in CursorKeys, loc \in CursorLocs, d \in DupsFor(unique) : WorkInsert(key, loc, d)
    \/ \E key \in CursorKeys, loc \in CursorLocs, d \in DupsFor(unique) : WorkUnindex(key, loc, d)

SpecYield == InitCursor /\ [][NextYield]_vars

\* the cursor of a bounded scan that is detached and reattached while saved
NextBounded ==
    \/ \E forward \in BOOLEAN : NewCursor(forward)
    \/ \E key \in CursorKeys, inclusive \in BOOLEAN : SetEndPosition(key, inclusive)
    \/ Seek(EmptyKey, TRUE)
    \/ NextEntry
    \/ SavePositioned
    \/ Restore
    \/ DetachFromOperationContext
    \/ \E txn \in Contexts : ReattachToOperationContext(txn)
    \/ \E key \in CursorKeys, loc \in CursorLocs, d \in DupsFor(unique) : WorkInsert(key, loc, d)
    \/ \E key \in CursorKeys, loc \in CursorLocs, d \in DupsFor(unique) : WorkUnindex(key, loc, d)

SpecBounded == InitCursor /\ [][NextBounded]_vars

\* the cursor whose moves may meet a write conflict
NextConflicts ==
    \/ \E forward \in BOOLEAN : NewCursor(forward)
    \/ \E key \in SeekKeys, inclusive \in BOOLEAN : Seek(key, inclusive)
    \/ \E key \in CursorKeys : SeekExact(key)
    \/ NextEntry
    \/ SavePositioned
    \/ Restore
    \/ \E at \in Anywhere(table) : NextConflict(at)
    \/ \E key \in SeekKeys, inclusive \in BOOLEAN, step \in {"search_near", "advance"},
          at \in Anywhere(table) : SeekConflict(key, inclusive, step, at)
    \/ \E key \in CursorKeys, at \in Anywhere(table) : SeekExactConflict(key, at)
    \/ \E key \in CursorKeys, loc \in CursorLocs, d \in DupsFor(unique) : WorkInsert(key, loc, d)
    \/ \E key \in CursorKeys, loc \in CursorLocs, d \in DupsFor(unique) : WorkUnindex(key, loc, d)

SpecConflicts == InitCursor /\ [][NextConflicts]_vars

YieldTypeOK == cur.cursor \in {"none", "constructor", "restore"}

(***************************************************************************)
(* Properties of the cursor across saves, yields and failing moves.        *)
(***************************************************************************)
\* the saved position is in the index: the row of the saved key, and in a
\* unique index the saved record id at the head of it
OnSavedPosition(c, t, u) ==
    /\ c.key \in DOMAIN t
    /\ u => Head(t[c.key]) = c.loc

\* the entry of the row the engine cursor is on, NoEntry when it is on none
EntryAt(t, u, pos) ==
    IF pos = <<>> THEN NoEntry
    ELSE IF u THEN [v |-> pos[1] - 10, tb |-> ParseList(t[pos])[1][2],
                    loc |-> ParseList(t[pos])[1][1]]
    ELSE [v |-> pos[1] - 10, tb |-> TypeBitsFromBuffer(t[pos]).bits, loc |-> pos[Len(pos)]]

\* what a move hands to its caller
Returned(r) == IF r.fatal THEN [v |-> -2, tb |-> 0, loc |-> 0] ELSE curr(r.cur)

\* restore() of the flavour
restoreOf(c, t, u, near) == IF u THEN restoreUnique(c, t, near) ELSE restoreBase(c, t, near)

\* the parts of the restore flag protocol that do not speak of the flag
\* after a move: what restore does to the flag, what the next() after a
\* restore does, and that a further save and restore changes nothing
RestoreProtocol ==
    /\ (cur.state = "saved" /\ cur'.call.name = "restore") =>
          cur'.lastMoveWasRestore =
              IF cur.eof THEN cur.lastMoveWasRestore ELSE ~OnSavedPosition(cur, table, unique)
    /\ (cur.call.name = "restore" /\ cur'.call.name = "next" /\ ~cur.eof) =>
          IF cur.lastMoveWasRestore
          THEN /\ cur'.pos = cur.pos
               /\ ~aborted' => curr(cur') = Bounded(cur, EntryAt(table, unique, cur.pos))
          ELSE cur'.pos = (IF cur.forward THEN WtNext(table, cur.pos)
                           ELSE WtPrev(table, cur.pos)).pos
    /\ (cur.call.name = "restore" /\ cur'.call.name = "savePositioned") =>
          \A near \in WtSearchNear(table, cur.key) :
              Returned(cursorNext(restoreOf(cur', table, unique, near), table, unique))
                  = Returned(cursorNext(cur, table, unique))

\* C24 as stated: restore() sets the last-move-was-restore flag iff the
\* cursor is not at EOF and the seek did not land on the saved position; the
\* next() after a flagged restore does not advance the engine cursor and
\* returns the entry it is on, the next() after an exact restore advances
\* once; the flag is false after every seek, seekExact and next; repeating
\* save/restore pairs does not change what that next() returns.
C24_AsStated ==
    [][ /\ RestoreProtocol
        /\ cur'.call.name \in {"seek", "seekExact", "next"} => ~cur'.lastMoveWasRestore ]_vars

\* C24: as stated, but the flag is false after every seek and seekExact,
\* and after every next() of a cursor that is not at EOF: a next() at EOF
\* returns at once and leaves the flag as it was.
C24_RestoreFlag ==
    [][ /\ RestoreProtocol
        /\ cur'.call.name \in {"seek", "seekExact"} => ~cur'.lastMoveWasRestore
        /\ cur'.call.name = "next" =>
              cur'.lastMoveWasRestore = (cur.eof /\ cur.lastMoveWasRestore) ]_vars

\* a unique cursor restored on the row of its key, which holds another
\* record id: the flag is set and the engine cursor is on a row
C24_Witness ==
    /\ unique /\ cur.call.name = "restore" /\ ~cur.eof
    /\ cur.lastMoveWasRestore /\ cur.pos # <<>>
    /\ cur.key \in DOMAIN table

\* C25: a cursor at EOF stays at EOF through every step that is not a seek
\* or a seekExact, other work and save and restore included, and a next()
\* at EOF returns nothing, leaves the engine cursor and every member of the
\* cursor as they were, and does not end the process.
C25_EofAbsorbing ==
    [][ /\ (cur.eof /\ ~cur'.eof) => cur'.call.name \in {"seek", "seekExact"}
        /\ (cur.eof /\ cur.state = "open" /\ cur'.call.name = "next") =>
              /\ cur' = [cur EXCEPT !.call = Call("next", EmptyKey, TRUE)]
              /\ curr(cur') = NoEntry
              /\ aborted' = aborted ]_vars

\* a next() that returned nothing although the index, unbounded, holds an
\* entry of a key beyond the cursor's: the cursor was at EOF before it
C25_Witness ==
    /\ cur.call.name = "next" /\ cur.eof /\ cur.key # <<>>
    /\ cur.endArg.name = "none"
    /\ \E e \in Entries(table, unique) :
          IF cur.forward THEN e.v > cur.key[1] - 10 ELSE e.v < cur.key[1] - 10

\* C26: savePositioned, detachFromOperationContext,
\* reattachToOperationContext and restore leave the saved key, record id,
\* type bits, EOF flag and end bound as they were, and savePositioned
\* changes nothing but the engine cursor, which it resets.
C26_SaveKeepsPosition ==
    [][ /\ cur'.call.name \in {"savePositioned", "detachFromOperationContext",
                               "reattachToOperationContext", "restore"} =>
              /\ cur'.key = cur.key /\ cur'.loc = cur.loc /\ cur'.typeBits = cur.typeBits
              /\ cur'.eof = cur.eof
              /\ cur'.endPosition = cur.endPosition /\ cur'.endArg = cur.endArg
        /\ (cur.state = "open" /\ cur'.call.name = "savePositioned") =>
              /\ cur'.pos = <<>>
              /\ cur' = [cur EXCEPT !.pos = <<>>, !.state = "saved",
                                    !.call = Call("savePositioned", EmptyKey, TRUE)]
              /\ table' = table /\ aborted' = aborted ]_vars

\* a bounded cursor saved on an entry, detached, reattached and restored
\* with a new engine cursor, which is on another row than the saved one
C26_Witness ==
    /\ cur.call.name = "restore" /\ cur.cursor = "restore"
    /\ cur.endArg.name = "bound" /\ ~cur.eof
    /\ cur.key # <<>> /\ cur.pos # <<>> /\ cur.pos # cur.key

\* the step is a call of the cursor, not other work on the index
CursorCall(name) == cur' # cur /\ cur'.call.name = name

\* C27: the cursor object has one engine cursor or none; detach releases it
\* and clears the operation context; reattach sets the context and makes no
\* engine cursor; an engine cursor is made only by the constructor and by a
\* restore() that finds none; and from the detach to that restore the
\* engine cursor is not positioned and no seek, seekExact or next is made.
C27_HandleLifecycle ==
    [][ /\ cur'.cursor \in {"none", "constructor", "restore"}
        /\ CursorCall("detachFromOperationContext") =>
              cur'.cursor = "none" /\ cur'.txn = "none"
        /\ CursorCall("reattachToOperationContext") =>
              cur'.cursor = "none" /\ cur.cursor = "none" /\ cur'.txn \in Contexts
        /\ (cur'.cursor # cur.cursor /\ cur'.cursor # "none") =>
              /\ cur.cursor = "none"
              /\ cur'.call.name = IF cur.state = "none" THEN "newCursor" ELSE "restore"
              /\ cur'.cursor = IF cur.state = "none" THEN "constructor" ELSE "restore"
        /\ (cur.state # "none" /\ cur.cursor = "none") =>
              /\ cur.pos = <<>>
              /\ cur'.call.name \in {"detachFromOperationContext", "reattachToOperationContext",
                                     "saveUnpositioned", "restore"}
              /\ cur'.call.name # "restore" => (cur'.pos = <<>> /\ cur'.cursor = "none")
        /\ cur'.state = "open" => (cur'.cursor # "none" /\ cur'.txn # "none") ]_vars

\* a cursor that was detached, reattached and restored, and then moved to
\* an entry with the engine cursor restore made
C27_Witness ==
    /\ cur.cursor = "restore" /\ cur.txn # "none"
    /\ cur.call.name = "next" /\ ~cur.eof /\ cur.pos # <<>>

\* the entry the next() after a savePositioned and restore of cursor c
\* returns is the first one beyond the entry c's members stand for
ResumesFrom(c, t, u) ==
    \A near \in WtSearchNear(t, c.key) :
        Returned(cursorNext(restoreOf(savePositioned(c), t, u, near), t, u))
            = First(c.forward, {e \in Entries(t, u) : Beyond(c.forward, SavedAt(c), e)})

\* C28: a next(), seek() or seekExact() whose engine step is a write
\* conflict leaves the cached key, record id, type bits and EOF flag as they
\* were, and the next() after a savePositioned and restore, with or without
\* other work in between, returns the first entry beyond the last returned
\* one; in a unique index, while every row holds one record id.
C28_FailingMove ==
    [][ /\ cur'.call.name \in {"next conflict", "seek conflict", "seekExact conflict"} =>
              /\ cur'.key = cur.key /\ cur'.loc = cur.loc /\ cur'.typeBits = cur.typeBits
              /\ cur'.eof = cur.eof
              /\ (cur.key # <<>> /\ ~cur.eof /\ (unique => SingleRows(table))) =>
                    ResumesFrom(cur', table, unique)
        /\ (NextAfterRestore /\ (unique => SingleRows(table))) =>
              curr(cur') = First(cur.forward, {e \in Entries(table, unique) :
                                                  Beyond(cur.forward, SavedAt(cur), e)}) ]_vars

\* a next() that failed after the engine cursor had left the entry last
\* returned, which the members still hold
C28_Witness ==
    /\ cur.call.name = "next conflict" /\ cur.state = "failed"
    /\ cur.key # <<>> /\ ~cur.eof /\ cur.pos # <<>> /\ cur.pos # cur.key
    /\ SavedAt(cur) \in Entries(table, unique)

\* the step is a seek, seekExact or next that moved or placed the cursor
PlacesCursor ==
    /\ cur.state = "open"
    /\ cur'.call.name \in {"seek", "seekExact", "next"}
    /\ ~(cur'.call.name = "next" /\ cur.eof)

\* C29: a seek, seekExact or next of a unique cursor that returns an entry
\* returns the only entry of its row, and one that leaves the engine cursor
\* on a row within the end bound that holds more than one record id ends
\* the process instead of returning; nothing else ends it.
C29_UniqueSingleRecord ==
    [][ (unique /\ PlacesCursor) =>
          LET many == /\ cur'.pos # <<>>
                      /\ Len(ParseList(table[cur'.pos])) > 1
                      /\ InBound(cur, EntryAt(table, TRUE, cur'.pos))
          IN /\ aborted' = many
             /\ (~aborted' /\ ~cur'.eof) =>
                   /\ cur'.key \in DOMAIN table
                   /\ ParseList(table[cur'.key]) = <<(<<cur'.loc, cur'.typeBits>>)>>
                   /\ curr(cur') = EntryAt(table, TRUE, cur'.key) ]_vars

\* a seekExact of a bounded unique cursor that ended the process on a row
\* of several record ids
C29_Witness ==
    /\ unique /\ aborted /\ cur.call.name = "seekExact"
    /\ cur.endArg.name = "bound"
    /\ cur.pos # <<>> /\ Len(ParseList(table[cur.pos])) > 1

\* C30: a next() of a cursor that is on an entry returns, when it returns
\* an entry, one strictly beyond that entry in the direction of travel, and
\* the entry the cursor is on changes only in seek and next, whatever is
\* inserted or unindexed between savePositioned and restore; so the
\* entries of successive next() calls are strictly increasing for a forward
\* cursor and strictly decreasing for a reverse one.
C30_MonotoneIteration ==
    [][ /\ (cur.state = "open" /\ cur'.call.name = "next" /\ cur.key # <<>> /\ ~cur.eof
              /\ ~cur'.eof /\ ~aborted') =>
              Beyond(cur.forward, SavedAt(cur), curr(cur'))
        /\ (cur.key # <<>> /\ cur'.call.name \notin {"seek", "next"}) =>
              (cur'.key # <<>> /\ SavedAt(cur') = SavedAt(cur) /\ cur'.eof = cur.eof
                 /\ cur'.forward = cur.forward) ]_vars

\* a next() after a restore that returned another entry than the one
\* foretold at the save: the index was changed in between
C30_Witness ==
    /\ cur.call.name = "next" /\ ~cur.eof /\ ~aborted
    /\ savedNext \notin {NoPrediction, NoEntry}
    /\ curr(cur) # savedNext

(***************************************************************************)
(* Properties of the bulk builders' order of work.                         *)
(***************************************************************************)
\* the step is an addKey to a unique builder that has a pending key
AddKeyAfterFirst == bulk.state = "open" /\ bulk.key # EmptyKey /\ op'.name = "addKey"

\* what addKey does with a key that passes its size check, by the order of
\* the key and the pending key
KeyOrder ==
    LET cmp == woCompare(op'.key, bulk.key)
        new == <<op'.loc, op'.key.tb>>
    IN /\ cmp < 0 => (aborted' /\ table' = table /\ bulk' = bulk)
       /\ cmp >= 0 => ~aborted'
       /\ cmp > 0 =>
             /\ op'.status = "OK" /\ bulk'.key = op'.key
             /\ bulk'.records = <<new>>
             /\ DOMAIN table' = DOMAIN table \cup {KeyString(bulk.key, "kInclusive")}
             /\ ParseList(table'[KeyString(bulk.key, "kInclusive")]) = bulk.records
       /\ (cmp = 0 /\ op'.status = "OK") =>
             (bulk'.records = Append(bulk.records, new) /\ table' = table)

\* C31 as stated: an addKey after the first with a key strictly smaller than
\* the pending key ends the process before anything is written; a greater
\* key replaces the pending key with the pending list empty before the new
\* record is appended; one list is pending at any time.
C31_AsStated ==
    [][ AddKeyAfterFirst =>
          /\ woCompare(op'.key, bulk.key) < 0 => (aborted' /\ table' = table /\ bulk' = bulk)
          /\ checkKeySize(op'.key) = "OK" => KeyOrder ]_vars

\* C31: as stated, for a key that passes the key size check: a key of 1024
\* bytes or more is refused with KeyTooLong before it is compared, smaller
\* than the pending key or not, and nothing ends.
C31_BulkKeyOrder ==
    [][ AddKeyAfterFirst =>
          /\ checkKeySize(op'.key) = "OK" => KeyOrder
          /\ checkKeySize(op'.key) # "OK" =>
                (op'.status = "KeyTooLong" /\ ~aborted' /\ table' = table /\ bulk' = bulk) ]_vars

\* a builder with a pending record ended by a smaller key, nothing written
C31_Witness ==
    /\ aborted /\ op.name = "addKey" /\ checkKeySize(op.key) = "OK"
    /\ bulk.state = "open" /\ bulk.records # <<>>
    /\ woCompare(op.key, bulk.key) < 0
    /\ table = EmptyTable

(***************************************************************************)
(* The sessions and the cursor of a bulk builder.  The builder takes a     *)
(* session of its own from the session cache; the caller's session, the    *)
(* outer one, may hold open cursors on the table.                          *)
(***************************************************************************)
\* the cursors the caller's session may hold open
MaxOuterCursors == 2

\* a call the builder makes on a session or on its cursor, and what it gave
Event(call, session, ret) == [call |-> call, session |-> session, ret |-> ret]

\* WT_SESSION::open_cursor with "bulk": EBUSY while another cursor is open on
\* the table, else whatever the engine gives
WtOpenBulkCursor(outer, err) == IF outer > 0 THEN "EBUSY" ELSE err

\* Fault: openBulkCursor opening the bulk cursor before it closes the outer
\* session's cursors.
openBulkCursorOpenFirst(s, err, err2) ==
    LET ret == WtOpenBulkCursor(s.outer, err)
        tried == [s EXCEPT !.log = Append(@, Event("open_cursor bulk", "private", ret))]
        closed == [tried EXCEPT !.outer = 0, !.closed = s.outer,
                                !.log = Append(@, Event("closeAllCursors", "outer", "0"))]
    IN IF ret = "0" THEN [sess |-> [closed EXCEPT !.cursor = "bulk"], outcome |-> "ok"]
       ELSE LET again == [closed EXCEPT !.log = Append(@, Event("open_cursor", "private", err2))]
            IN [sess |-> IF err2 = "0" THEN [again EXCEPT !.cursor = "normal"] ELSE again,
                outcome |-> invariantWTOK(err2)]

\* BulkBuilder::openBulkCursor; err and err2 are what the engine gives the
\* bulk open_cursor and the plain one
openBulkCursor(s, err, err2) ==
    LET closed == [s EXCEPT !.outer = 0, !.closed = s.outer,
                            !.log = Append(@, Event("closeAllCursors", "outer", "0"))]
        ret == WtOpenBulkCursor(closed.outer, err)
        tried == [closed EXCEPT !.log = Append(@, Event("open_cursor bulk", "private", ret))]
    IN IF ret = "0" THEN [sess |-> [tried EXCEPT !.cursor = "bulk"], outcome |-> "ok"]
       ELSE LET again == [tried EXCEPT !.log = Append(@, Event("open_cursor", "private", err2))]
            IN [sess |-> IF err2 = "0" THEN [again EXCEPT !.cursor = "normal"] ELSE again,
                outcome |-> invariantWTOK(err2)]

\* BulkBuilder::BulkBuilder: the members are initialised in the order
\* _session, _cursor
BulkBuilderConstructor(s, err, err2) ==
    openBulkCursor([s EXCEPT !.session = "held", !.released = 0, !.cursor = "none",
                             !.log = <<Event("getSession", "private", "0")>>],
                   err, err2)

\* Fault: the destructor releasing the session before it closes the cursor.
BulkBuilderDestructorReleaseFirst(s) ==
    [s EXCEPT !.cursor = "closed", !.session = "released", !.released = @ + 1,
              !.log = @ \o <<Event("releaseSession", "private", "0"),
                             Event("close", "private", "0")>>]

\* BulkBuilder::~BulkBuilder
BulkBuilderDestructor(s) ==
    [s EXCEPT !.cursor = "closed", !.session = "released", !.released = @ + 1,
              !.log = @ \o <<Event("close", "private", "0"),
                             Event("releaseSession", "private", "0")>>]

\* the caller's session opens a cursor on the table, as its reads and writes do
OuterOpenCursor ==
    /\ ~aborted /\ bulk.state = "none" /\ sess.session # "held"
    /\ sess.outer < MaxOuterCursors
    /\ sess' = [sess EXCEPT !.outer = @ + 1]
    /\ op' = [NoOp EXCEPT !.name = "openCursor", !.status = "OK"]
    /\ UNCHANGED <<unique, table, bulk, hist, fedSorted, aborted, txns, cur, scan, savedNext,
                   undo, fed, ident, fault>>

\* WiredTigerIndex::getBulkBuilder with the builder's construction; a
\* constructor that throws leaves no builder
ConstructBulkBuilder(dupsAllowed, err, err2) ==
    /\ ~aborted /\ bulk.state = "none" /\ sess.session # "held" /\ table = EmptyTable
    /\ LET r == BulkBuilderConstructor(sess, err, err2)
       IN /\ sess' = r.sess
          /\ aborted' = (r.outcome = "aborted")
          /\ bulk' = IF r.outcome = "ok"
                     THEN [NoBulk EXCEPT !.state = "open", !.dupsAllowed = dupsAllowed]
                     ELSE bulk
          /\ op' = [NoOp EXCEPT !.name = "getBulkBuilder", !.dups = dupsAllowed,
                                !.status = IF r.outcome = "ok" THEN "OK" ELSE r.outcome]
    /\ UNCHANGED <<unique, table, hist, fedSorted, txns, cur, scan, savedNext, undo, fed, ident,
                   fault>>

\* addKey through a builder that holds a bulk cursor
AddKeyBulk(key, loc) ==
    /\ ~aborted /\ bulk.state = "open" /\ sess.cursor = "bulk" /\ bulk.adds < MaxAdds
    /\ LET r == IF unique THEN UniqueAddKey(table, bulk, key, loc)
                ELSE StandardAddKey(table, bulk, key, loc)
       IN /\ table' = r.table
          /\ bulk' = r.bulk
          /\ aborted' = r.fatal
          /\ op' = [name |-> "addKey", key |-> key, loc |-> loc, dups |-> bulk.dupsAllowed,
                    status |-> r.status]
    /\ UNCHANGED <<unique, hist, fedSorted, nonIndexVars>>

\* UniqueBulkBuilder::commit and StandardBulkBuilder::commit
CommitBuilder ==
    /\ ~aborted /\ bulk.state = "open" /\ sess.cursor = "bulk"
    /\ LET ins == IF unique /\ bulk.records # <<>> THEN doInsert(table, bulk)
                  ELSE [ok |-> TRUE, table |-> table, records |-> bulk.records]
       IN /\ table' = ins.table
          /\ bulk' = [bulk EXCEPT !.state = "committed", !.records = ins.records]
          /\ aborted' = ~ins.ok
    /\ op' = [NoOp EXCEPT !.name = "commit", !.status = "OK"]
    /\ UNCHANGED <<unique, hist, fedSorted, nonIndexVars>>

\* the builder's destruction, after commit or without it
DestroyBuilder ==
    /\ ~aborted /\ bulk.state \in {"open", "committed"}
    /\ sess' = BulkBuilderDestructor(sess)
    /\ bulk' = NoBulk
    /\ op' = [NoOp EXCEPT !.name = "destroy", !.status = "OK"]
    /\ UNCHANGED <<unique, table, hist, fedSorted, aborted, txns, cur, scan, savedNext, undo,
                   fed, ident, fault>>

NextSessions ==
    \/ OuterOpenCursor
    \/ \E d \in DupsFor(unique), err \in Rets, err2 \in Rets : ConstructBulkBuilder(d, err, err2)
    \/ \E key \in PlainKeys, loc \in 1..MaxFeedLoc : FeedSorted(key, loc) /\ AddKeyBulk(key, loc)
    \/ CommitBuilder
    \/ DestroyBuilder

SpecSessions == Init /\ [][NextSessions]_vars

(***************************************************************************)
(* Properties of the bulk builder's sessions.                              *)
(***************************************************************************)
\* the calls of a builder's construction, in the order made
ConstructionOrder(log) ==
    /\ Len(log) >= 1 => log[1] = Event("getSession", "private", "0")
    /\ Len(log) >= 2 => log[2] = Event("closeAllCursors", "outer", "0")
    /\ Len(log) >= 3 => (log[3].call = "open_cursor bulk" /\ log[3].session = "private")
    /\ Len(log) >= 4 => \/ /\ log[3].ret # "0"
                           /\ log[4].call = "open_cursor" /\ log[4].session = "private"
                        \/ /\ log[4] = Event("close", "private", "0")
                           /\ log[3].ret = "0"

\* the calls of a builder's teardown are the last two of the log, the
\* cursor's close before the session's release
TeardownOrder(log) ==
    /\ Len(log) >= 5
    /\ log[Len(log) - 1] = Event("close", "private", "0")
    /\ log[Len(log)] = Event("releaseSession", "private", "0")
    /\ \A i \in 1..(Len(log) - 2) : log[i].call \notin {"close", "releaseSession"}

\* C32: constructing a bulk builder gets the private session, then closes
\* every cursor of the outer session, then tries a bulk cursor on the private
\* session and, when that fails, opens a plain cursor on the same session;
\* the teardown closes the cursor and then releases the session, once.
C32_ResourceOrder ==
    [][ /\ ConstructionOrder(sess'.log)
        /\ sess'.released <= 1
        /\ op'.name = "getBulkBuilder" =>
              /\ sess'.session = "held" /\ sess'.released = 0
              /\ sess'.outer = 0 /\ sess'.closed = sess.outer
              /\ Len(sess'.log) \in {3, 4}
              /\ sess'.log[3].ret = "0" <=> Len(sess'.log) = 3
              /\ sess'.log[3].ret = "0" => (op'.status = "OK" /\ sess'.cursor = "bulk")
              /\ (sess'.log[3].ret # "0" /\ op'.status = "OK") => sess'.cursor = "normal"
              /\ op'.status # "OK" => (sess'.cursor = "none" /\ bulk' = bulk)
        /\ bulk'.state # "none" =>
              /\ sess'.session = "held" /\ sess'.cursor \in {"bulk", "normal"}
              /\ (sess'.log = sess.log \/ op'.name = "getBulkBuilder")
        /\ op'.name = "destroy" =>
              /\ sess.session = "held" /\ sess.released = 0
              /\ sess'.session = "released" /\ sess'.released = 1
              /\ sess'.cursor = "closed"
              /\ TeardownOrder(sess'.log)
              /\ Len(sess'.log) = Len(sess.log) + 2
      ]_vars

\* a builder torn down that found two cursors open in the outer session and
\* fell back to a plain cursor
C32_Witness ==
    /\ op.name = "destroy" /\ sess.session = "released" /\ sess.released = 1
    /\ sess.closed = MaxOuterCursors /\ sess.outer = 0
    /\ Len(sess.log) = 6 /\ sess.log[3].ret = "EBUSY" /\ sess.log[4].ret = "0"

====
